---- MODULE Spec2Model ----
(***************************************************************************)
(* Model of the Solana NFT metadata updater:                               *)
(*   - src/src/metadataUpdater.ts : fetchCurrentMetadata,                  *)
(*     isMetadataDifferent, updateNFTMetadata, processBatch                *)
(*   - src/unnamed/part_001 (utils): retryWithBackoff, saveCheckpoint,     *)
(*     loadCheckpoint, deleteCheckpoint, setupGracefulShutdown             *)
(*   - src/unnamed/part_002 (logger): Logger.logResult, saveLogs, ...      *)
(*   - src/src/types.ts lines 112-342 : main                               *)
(*                                                                         *)
(* Strings are sequences of characters; NUL stands for "\0", SP for " ".   *)
(* An optional field of a TypeScript object is a record field that is      *)
(* present or not (tested with \in DOMAIN).                                *)
(***************************************************************************)
EXTENDS Integers, Sequences, FiniteSets, TLC

VARIABLES
    chain,          \* remote ledger: mint -> account record or Absent
    remote,         \* the remote's behaviour: pads (the program NUL-pads the strings
                    \* it stores), flaky (getAccountInfo can fail)
    u,              \* frame of the updateNFTMetadata call in progress
    prev,           \* the call before this one, when it ended in a confirmed update (history)
    config,         \* Config of the running process
    manifest,       \* the records parseCSV yields (the CSV file on disk)
    m,              \* locals of main() and processBatch() of the running process
    logs,           \* Logger.logs of the running process
    checkpointFile, \* <log-dir>/checkpoint.json
    logFile,        \* <log-dir>/update_log.json
    summaryFile,    \* <log-dir>/summary.json
    failedFile,     \* <log-dir>/failed_nfts.json
    calls,          \* mints passed to updateNFTMetadata by this process (history)
    last,           \* what the previous process left behind (history)
    rt              \* frame of a retryWithBackoff call on its own

vars == <<chain, remote, u, prev, config, manifest, m, logs, checkpointFile, logFile,
          summaryFile, failedFile, calls, last, rt>>

----------------------------------------------------------------------------
(* Bounds *)

MaxRetry == 1       \* config.maxRetries is at most MaxRetry
MaxRecords == 3     \* the manifest has 1..MaxRecords records
MaxBatch == 2       \* config.batchSize ranges over 1..MaxBatch

\* config.checkpointInterval: a checkpoint after every batch, or after the
\* batches that bring the count to an even number
CheckpointIntervals == {1, 2}

----------------------------------------------------------------------------
(* Values *)

NUL == "NUL"
SP == " "
TAB == "TAB"
WhiteSpace == {SP, TAB}         \* what String.prototype.trim() removes
Wallet == "W"                   \* wallet.publicKey
Other == "X"                    \* some other update authority
Absent == [exists |-> FALSE]    \* getAccountInfo returns null for this mint
NoFile == [exists |-> FALSE]    \* the file does not exist
Null == [found |-> FALSE]       \* fetchCurrentMetadata's null
BadMint == "not-base58"         \* a mint string new PublicKey() rejects
AllMints == <<"m1", "m2", "m3", "m4">>
BaseDelay == 1000               \* config.retryDelayMs

\* target / on-chain strings
NameVals == {<<"a">>, <<"b">>, <<"a", SP>>, <<"a", NUL>>}
MetaVals ==
    [name : NameVals, symbol : {<<"s">>}, uri : {<<"u">>}]
    \cup {[name |-> <<"a">>, symbol |-> <<"t">>, uri |-> <<"u">>],
          [name |-> <<"a">>, symbol |-> <<"s">>, uri |-> <<"v">>]}

----------------------------------------------------------------------------
(* Pure functions of metadataUpdater.ts *)

\* String.prototype.trim(): NUL is not white space
RECURSIVE TrimStart(_)
TrimStart(s) ==
    IF s # <<>> /\ Head(s) \in WhiteSpace THEN TrimStart(Tail(s)) ELSE s

RECURSIVE TrimEnd(_)
TrimEnd(s) ==
    IF s # <<>> /\ s[Len(s)] \in WhiteSpace
    THEN TrimEnd(SubSeq(s, 1, Len(s) - 1)) ELSE s

Trim(s) == TrimEnd(TrimStart(s))

\* .replace(/\0/g, '')
StripNulMut(s) == s
StripNul(s) == SelectSeq(s, LAMBDA c : c # NUL)

\* fetchCurrentMetadata's parse of a present account
ParseAccount(data) ==
    [name |-> StripNul(data.name),
     symbol |-> StripNul(data.symbol),
     uri |-> StripNul(data.uri),
     updateAuthority |-> data.updateAuthority]

IsMetadataDifferentMut(current, original) ==
    \/ current.name # original.name
    \/ current.symbol # original.symbol
    \/ current.uri # original.uri
IsMetadataDifferent(current, original) ==
    \/ Trim(current.name) # Trim(original.name)
    \/ Trim(current.symbol) # Trim(original.symbol)
    \/ Trim(current.uri) # Trim(original.uri)

\* new PublicKey(metadata.mint) succeeds
IsValidPublicKey(mint) == mint # BadMint

\* current.updateAuthority.equals(wallet.publicKey)
AuthorityMatchesMut(current) == TRUE
AuthorityMatches(current) == current.updateAuthority = Wallet

Values(r) == [name |-> r.name, symbol |-> r.symbol, uri |-> r.uri]

----------------------------------------------------------------------------
(* updateNFTMetadata: the frame of one call *)

IdleFrame == [pc |-> "idle"]

RECURSIVE Pow2(_)
Pow2(n) == IF n = 0 THEN 1 ELSE 2 * Pow2(n - 1)

ErrorResultMut(mint, err) ==
    [mint |-> mint, status |-> "error",
     error |-> [message |-> err.message, expected |-> "", found |-> ""]]
ErrorResult(mint, err) == [mint |-> mint, status |-> "error", error |-> err]

\* lines 206-253: what the call does with the fetched value, up to the
\* submission; [ret |-> TRUE, result] when it returns before submitting
DecideMut(current, metadata, dryRun) ==
    IF ~current.found
    THEN [ret |-> TRUE,
          result |-> ErrorResult(metadata.mint,
                                 [message |-> "Failed to fetch current metadata"])]
    ELSE IF ~AuthorityMatches(current)
    THEN [ret |-> TRUE,
          result |-> ErrorResult(metadata.mint,
                                 [message |-> "Update authority mismatch",
                                  expected |-> Wallet,
                                  found |-> current.updateAuthority])]
    ELSE IF ~IsMetadataDifferent(current, metadata)
    THEN [ret |-> TRUE,
          result |-> [mint |-> metadata.mint, status |-> "skipped",
                      action |-> "metadata already matches"]]
    ELSE [ret |-> FALSE]
DecideAbsentMut(current, metadata, dryRun) ==
    IF ~current.found
    THEN [ret |-> FALSE]
    ELSE IF ~AuthorityMatches(current)
    THEN [ret |-> TRUE,
          result |-> ErrorResult(metadata.mint,
                                 [message |-> "Update authority mismatch",
                                  expected |-> Wallet,
                                  found |-> current.updateAuthority])]
    ELSE IF ~IsMetadataDifferent(current, metadata)
    THEN [ret |-> TRUE,
          result |-> [mint |-> metadata.mint, status |-> "skipped",
                      action |-> "metadata already matches"]]
    ELSE IF dryRun
    THEN [ret |-> TRUE,
          result |-> [mint |-> metadata.mint, status |-> "updated",
                      action |-> "dry run - would update",
                      oldValues |-> Values(current),
                      newValues |-> Values(metadata)]]
    ELSE [ret |-> FALSE]
DecideOrderMut(current, metadata, dryRun) ==
    IF ~current.found
    THEN [ret |-> TRUE,
          result |-> ErrorResult(metadata.mint,
                                 [message |-> "Failed to fetch current metadata"])]
    ELSE IF ~IsMetadataDifferent(current, metadata)
    THEN [ret |-> TRUE,
          result |-> [mint |-> metadata.mint, status |-> "skipped",
                      action |-> "metadata already matches"]]
    ELSE IF dryRun
    THEN [ret |-> TRUE,
          result |-> [mint |-> metadata.mint, status |-> "updated",
                      action |-> "dry run - would update",
                      oldValues |-> Values(current),
                      newValues |-> Values(metadata)]]
    ELSE IF ~AuthorityMatches(current)
    THEN [ret |-> TRUE,
          result |-> ErrorResult(metadata.mint,
                                 [message |-> "Update authority mismatch",
                                  expected |-> Wallet,
                                  found |-> current.updateAuthority])]
    ELSE [ret |-> FALSE]
Decide(current, metadata, dryRun) ==
    IF ~current.found
    THEN [ret |-> TRUE,
          result |-> ErrorResult(metadata.mint,
                                 [message |-> "Failed to fetch current metadata"])]
    ELSE IF ~AuthorityMatches(current)
    THEN [ret |-> TRUE,
          result |-> ErrorResult(metadata.mint,
                                 [message |-> "Update authority mismatch",
                                  expected |-> Wallet,
                                  found |-> current.updateAuthority])]
    ELSE IF ~IsMetadataDifferent(current, metadata)
    THEN [ret |-> TRUE,
          result |-> [mint |-> metadata.mint, status |-> "skipped",
                      action |-> "metadata already matches"]]
    ELSE IF dryRun
    THEN [ret |-> TRUE,
          result |-> [mint |-> metadata.mint, status |-> "updated",
                      action |-> "dry run - would update",
                      oldValues |-> Values(current),
                      newValues |-> Values(metadata)]]
    ELSE [ret |-> FALSE]

\* lines 194-204: the call starts; new PublicKey(metadata.mint) is outside
\* the try block, so an invalid mint string makes the call throw
UpdateStart(metadata, dryRun) ==
    IF ~IsValidPublicKey(metadata.mint)
    THEN [pc |-> "thrown", metadata |-> metadata, dryRun |-> dryRun,
          fetches |-> 0, submits |-> 0, delays |-> <<>>,
          thrown |-> [message |-> "Invalid public key input"]]
    ELSE [pc |-> "fetch", metadata |-> metadata, dryRun |-> dryRun,
          attempt |-> 0, fetches |-> 0, submits |-> 0, delays |-> <<>>]

RetryAfterFailureMut(f, err) ==
    IF f.attempt <= config.maxRetries
    THEN [f EXCEPT !.pc = "backoff",
                   !.delays = Append(@, BaseDelay * Pow2(f.attempt))]
    ELSE [pc |-> "returned", metadata |-> f.metadata, dryRun |-> f.dryRun,
          current |-> f.current, fetches |-> f.fetches, submits |-> f.submits,
          delays |-> f.delays,
          result |-> ErrorResult(f.metadata.mint, err)]

RetryAfterFailureOnceMut(f, err) ==
    [pc |-> "returned", metadata |-> f.metadata, dryRun |-> f.dryRun,
     current |-> f.current, fetches |-> f.fetches, submits |-> f.submits,
     delays |-> f.delays,
     result |-> ErrorResult(f.metadata.mint, err)]

\* retryWithBackoff lines 76-86 after a failed attempt: back off before the
\* next attempt, or rethrow the last error, which line 299 catches
RetryAfterFailure(f, err) ==
    IF f.attempt < config.maxRetries
    THEN [f EXCEPT !.pc = "backoff",
                   !.delays = Append(@, BaseDelay * Pow2(f.attempt))]
    ELSE [pc |-> "returned", metadata |-> f.metadata, dryRun |-> f.dryRun,
          current |-> f.current, fetches |-> f.fetches, submits |-> f.submits,
          delays |-> f.delays,
          result |-> ErrorResult(f.metadata.mint, err)]

\* lines 200-253: one attempt of the fetch inside retryWithBackoff.
\* fetchCurrentMetadata catches every error and returns null, so the first
\* attempt always resolves and retryWithBackoff returns its value.
FetchCurrentMetadata(mint, rpc) ==
    IF rpc = "ok" /\ chain[mint].exists THEN ParseAccount(chain[mint]) @@ [found |-> TRUE]
    ELSE Null

FetchAttempt ==
    /\ u.pc = "fetch"
    /\ \E rpc \in IF remote.flaky THEN {"ok", "error"} ELSE {"ok"} :
         LET current == FetchCurrentMetadata(u.metadata.mint, rpc)
             d == Decide(current, u.metadata, u.dryRun)
             base == [metadata |-> u.metadata, dryRun |-> u.dryRun,
                      current |-> current, fetches |-> u.fetches + 1,
                      submits |-> 0, delays |-> u.delays]
         IN  u' = IF d.ret
                  THEN base @@ [pc |-> "returned", result |-> d.result]
                  ELSE base @@ [pc |-> "submit", attempt |-> 0]
    /\ UNCHANGED <<rt, chain, remote, prev, config, manifest, m, logs, checkpointFile,
                   logFile, summaryFile, failedFile, calls, last>>

\* What the ledger holds after a confirmed update: the strings of the
\* instruction, which the token-metadata program may pad with NULs
Stored(s) == IF remote.pads THEN s \o <<NUL>> ELSE s

\* lines 273-298: sendAndConfirmTransaction resolves
SubmitOk ==
    /\ u.pc = "submit"
    /\ chain' = [chain EXCEPT ![u.metadata.mint] =
                    [exists |-> TRUE,
                     updateAuthority |-> @.updateAuthority,
                     name |-> Stored(u.metadata.name),
                     symbol |-> Stored(u.metadata.symbol),
                     uri |-> Stored(u.metadata.uri)]]
    /\ u' = [pc |-> "returned", metadata |-> u.metadata, dryRun |-> u.dryRun,
             current |-> u.current, fetches |-> u.fetches,
             submits |-> u.submits + 1, delays |-> u.delays,
             result |-> [mint |-> u.metadata.mint, status |-> "updated",
                         oldValues |-> Values(u.current),
                         newValues |-> Values(u.metadata),
                         transactionSignature |-> "sig"]]
    /\ UNCHANGED <<rt, remote, prev, config, manifest, m, logs, checkpointFile,
                   logFile, summaryFile, failedFile, calls, last>>

\* lines 273-281 and 299-306: sendAndConfirmTransaction rejects
SubmitFail ==
    /\ u.pc = "submit"
    /\ u' = RetryAfterFailure([u EXCEPT !.submits = @ + 1],
                              [message |-> "send failed", attempt |-> u.attempt])
    /\ UNCHANGED <<rt, chain, remote, prev, config, manifest, m, logs, checkpointFile,
                   logFile, summaryFile, failedFile, calls, last>>

\* retryWithBackoff line 81: the sleep ends and the loop goes on
Backoff ==
    /\ u.pc = "backoff"
    /\ u' = [u EXCEPT !.pc = "submit", !.attempt = @ + 1]
    /\ UNCHANGED <<rt, chain, remote, prev, config, manifest, m, logs, checkpointFile,
                   logFile, summaryFile, failedFile, calls, last>>

----------------------------------------------------------------------------
(* Calls of updateNFTMetadata one after the other, on one ledger entry *)

NoCall == [done |-> FALSE]
NoMain == [pc |-> "none"]

Target(mint, v) ==
    [mint |-> mint, name |-> v.name, symbol |-> v.symbol, uri |-> v.uri]

Account(authority, v) ==
    [exists |-> TRUE, updateAuthority |-> authority,
     name |-> v.name, symbol |-> v.symbol, uri |-> v.uri]

TargetRecords == {Target(mint, v) : mint \in {"m1", BadMint}, v \in MetaVals}

AccountRecords == {Account(a, v) : a \in {Wallet, Other}, v \in MetaVals}

InitUpdate ==
    /\ \E a \in AccountRecords \cup {Absent} :
         chain = [x \in {"m1"} |-> a]
    /\ \E p \in BOOLEAN : remote = [pads |-> p, flaky |-> TRUE]
    /\ u = IdleFrame
    /\ prev = NoCall
    /\ \E r \in 0..MaxRetry : config = [maxRetries |-> r]
    /\ manifest = <<>>
    /\ m = NoMain
    /\ logs = <<>>
    /\ checkpointFile = NoFile
    /\ logFile = NoFile
    /\ summaryFile = NoFile
    /\ failedFile = NoFile
    /\ calls = <<>>
    /\ last = NoCall
    /\ rt = IdleFrame

\* a caller invokes updateNFTMetadata(connection, wallet, metadata, dryRun, ...)
CallUpdate ==
    /\ m.pc = "none"
    /\ u.pc \in {"idle", "returned", "thrown"}
    /\ \E metadata \in TargetRecords, dryRun \in BOOLEAN :
         u' = UpdateStart(metadata, dryRun)
    /\ prev' = IF u.pc = "returned" /\ "transactionSignature" \in DOMAIN u.result
               THEN [done |-> TRUE, metadata |-> u.metadata]
               ELSE NoCall
    /\ UNCHANGED <<rt, chain, remote, config, manifest, m, logs, checkpointFile,
                   logFile, summaryFile, failedFile, calls, last>>

NextUpdate == CallUpdate \/ FetchAttempt \/ SubmitOk \/ SubmitFail \/ Backoff

SpecUpdate == InitUpdate /\ [][NextUpdate]_vars

----------------------------------------------------------------------------
(* retryWithBackoff (utils) on its own. fn is an operation that, each time  *)
(* it is invoked, resolves with a value or rejects with an error.           *)

MaxRetriesArg == 3                  \* maxRetries ranges over 0..MaxRetriesArg
BaseDelays == {1000, 250}           \* baseDelay, in milliseconds
FnValues == {"v1", "v2"}            \* what fn can resolve with
FnErrors == {"e1", "e2"}            \* what fn can reject with
Undefined == [defined |-> FALSE]    \* let lastError: Error | undefined

\* line 73: the condition of the for loop
LoopGuardMut(f) == f.attempt <= f.maxRetries + 1
LoopGuard(f) == f.attempt <= f.maxRetries

\* line 79: a sleep follows the failed attempt
ShouldSleep(f) == f.attempt < f.maxRetries

\* line 80
BackoffDelayMut(baseDelay, attempt) == baseDelay * (attempt + 1)
BackoffDelay(baseDelay, attempt) == baseDelay * Pow2(attempt)

\* line 77: lastError = error
CaughtMut(f, error) ==
    IF f.lastError.defined THEN f.lastError ELSE [defined |-> TRUE, error |-> error]
Caught(f, error) == [defined |-> TRUE, error |-> error]

\* lines 73 and 86: the top of the loop; fn is invoked next, or the loop is
\* over and lastError is thrown
LoopTop(f) ==
    IF LoopGuard(f) THEN [f EXCEPT !.pc = "invoke"]
    ELSE [f EXCEPT !.pc = "rejected",
                   !.result = [kind |-> "error", thrown |-> f.lastError]]

InitRetry ==
    /\ rt = IdleFrame
    /\ chain = [x \in {"m1"} |-> Absent]
    /\ remote = [pads |-> FALSE, flaky |-> FALSE]
    /\ u = IdleFrame
    /\ prev = NoCall
    /\ config = [maxRetries |-> 0]
    /\ manifest = <<>>
    /\ m = NoMain
    /\ logs = <<>>
    /\ checkpointFile = NoFile
    /\ logFile = NoFile
    /\ summaryFile = NoFile
    /\ failedFile = NoFile
    /\ calls = <<>>
    /\ last = NoCall

\* lines 66-73: a caller invokes retryWithBackoff(fn, maxRetries, baseDelay)
RetryCall ==
    /\ rt.pc \in {"idle", "resolved", "rejected"}
    /\ \E r \in 0..MaxRetriesArg, b \in BaseDelays :
         rt' = LoopTop([pc |-> "start", maxRetries |-> r, baseDelay |-> b,
                        attempt |-> 0, lastError |-> Undefined,
                        outcomes |-> <<>>, delays |-> <<>>, result |-> Undefined])
    /\ UNCHANGED <<chain, remote, u, prev, config, manifest, m, logs, checkpointFile,
                   logFile, summaryFile, failedFile, calls, last>>

\* lines 74-75: fn resolves; return await fn()
FnResolves ==
    /\ rt.pc = "invoke"
    /\ \E v \in FnValues :
         rt' = [rt EXCEPT !.pc = "resolved",
                          !.outcomes = Append(@, v),
                          !.result = [kind |-> "value", value |-> v]]
    /\ UNCHANGED <<chain, remote, u, prev, config, manifest, m, logs, checkpointFile,
                   logFile, summaryFile, failedFile, calls, last>>

\* lines 76-83: fn rejects; the error is kept, and either the sleep starts
\* or the loop goes on to its end
FnRejects ==
    /\ rt.pc = "invoke"
    /\ \E e \in FnErrors :
         LET f == [rt EXCEPT !.outcomes = Append(@, e),
                             !.lastError = Caught(rt, e)]
         IN  rt' = IF ShouldSleep(f)
                   THEN [f EXCEPT !.pc = "sleep",
                                  !.delays = Append(@, BackoffDelay(f.baseDelay,
                                                                    f.attempt))]
                   ELSE LoopTop([f EXCEPT !.attempt = @ + 1])
    /\ UNCHANGED <<chain, remote, u, prev, config, manifest, m, logs, checkpointFile,
                   logFile, summaryFile, failedFile, calls, last>>

\* lines 81 and 73: the sleep ends; attempt++
SleepEnds ==
    /\ rt.pc = "sleep"
    /\ rt' = LoopTop([rt EXCEPT !.attempt = @ + 1])
    /\ UNCHANGED <<chain, remote, u, prev, config, manifest, m, logs, checkpointFile,
                   logFile, summaryFile, failedFile, calls, last>>

NextRetry == RetryCall \/ FnResolves \/ FnRejects \/ SleepEnds

SpecRetry == InitRetry /\ [][NextRetry]_vars

----------------------------------------------------------------------------
(* Files of the log directory (utils and logger) *)

Min(a, b) == IF a < b THEN a ELSE b

Range(s) == {s[j] : j \in DOMAIN s}

\* Array.prototype.slice(start, end) with 0 <= start, 0 <= end
SliceMut(s, start, end) ==
    IF start >= Min(end + 1, Len(s)) THEN <<>>
    ELSE SubSeq(s, start + 1, Min(end + 1, Len(s)))
Slice(s, start, end) ==
    IF start >= Min(end, Len(s)) THEN <<>> ELSE SubSeq(s, start + 1, Min(end, Len(s)))

\* filterByRange (csvParser.ts)
FilterByRangeMut(metadata, range) ==
    IF ~range.given THEN metadata ELSE Slice(metadata, range.start, range.end)
FilterByRange(metadata, range) ==
    IF ~range.given THEN metadata ELSE Slice(metadata, range.start, range.end + 1)

\* loadCheckpoint: null when the file does not exist
LoadCheckpoint == checkpointFile

\* main, lines 171-173
ResumeFilter(allMetadata, checkpoint) ==
    SelectSeq(allMetadata, LAMBDA r : r.mint \notin Range(checkpoint.processedMints))

ResumePlanMut(allMetadata, resumeFromCheckpoint) ==
    LET checkpoint == IF resumeFromCheckpoint THEN LoadCheckpoint ELSE NoFile
        startIndex == IF checkpoint.exists THEN checkpoint.lastProcessedIndex + 1 ELSE 0
        remaining == IF checkpoint.exists THEN ResumeFilter(allMetadata, checkpoint)
                     ELSE allMetadata
    IN  [checkpoint |-> checkpoint,
         startIndex |-> startIndex,
         previousResults |-> [updated |-> 0, skipped |-> 0, failed |-> 0],
         metadata |-> Slice(remaining, startIndex, Len(remaining))]

\* main, lines 159-179: the checkpoint in use (NoFile for none), the start
\* index, the seed of the counters and the working list
ResumePlan(allMetadata, resumeFromCheckpoint) ==
    LET checkpoint == IF resumeFromCheckpoint THEN LoadCheckpoint ELSE NoFile
        startIndex == IF checkpoint.exists THEN checkpoint.lastProcessedIndex + 1 ELSE 0
        previousResults == IF checkpoint.exists THEN checkpoint.summary
                           ELSE [updated |-> 0, skipped |-> 0, failed |-> 0]
        remaining == IF checkpoint.exists THEN ResumeFilter(allMetadata, checkpoint)
                     ELSE allMetadata
    IN  [checkpoint |-> checkpoint,
         startIndex |-> startIndex,
         previousResults |-> previousResults,
         metadata |-> Slice(remaining, startIndex, Len(remaining))]

\* calculateTotalCost, in units of a millionth of a SOL
AvgFeePerTx == 5

CalculateTotalCostMut(results) == Len(results) * AvgFeePerTx
CalculateTotalCost(results) ==
    Len(SelectSeq(results, LAMBDA r : r.status = "updated"
                                      /\ "transactionSignature" \in DOMAIN r))
    * AvgFeePerTx

----------------------------------------------------------------------------
(* main and processBatch *)

Kinds == {"match", "differ", "mismatch"}

TargetVal == [name |-> <<"a">>, symbol |-> <<"s">>, uri |-> <<"u">>]
StaleVal == [name |-> <<"b">>, symbol |-> <<"s">>, uri |-> <<"u">>]

AccountOfKind(kind) ==
    IF kind = "match" THEN Account(Wallet, TargetVal)
    ELSE IF kind = "differ" THEN Account(Wallet, StaleVal)
    ELSE IF kind = "mismatch" THEN Account(Other, StaleVal)
    ELSE Absent

\* the metadata account of the first record of the manifest may be missing,
\* and its mint may be a string that is no address
KindsAt(j) == IF j = 1 THEN Kinds \cup {"absent", "invalid"} ELSE Kinds

MintOfKind(j, kind) == IF kind = "invalid" THEN BadMint ELSE AllMints[j]

BatchDelay == 500               \* config.batchDelayMs

Ranges == {[given |-> FALSE]}

Init ==
    /\ \E n \in 1..MaxRecords :
         \E kinds \in {f \in [1..n -> Kinds \cup {"absent", "invalid"}] :
                         \A j \in 1..n : f[j] \in KindsAt(j)} :
            /\ manifest = [j \in 1..n |-> Target(MintOfKind(j, kinds[j]), TargetVal)]
            /\ chain = [x \in {MintOfKind(j, kinds[j]) : j \in 1..n} |->
                          AccountOfKind(kinds[CHOOSE j \in 1..n :
                                                MintOfKind(j, kinds[j]) = x])]
    /\ \E b \in 1..MaxBatch, c \in CheckpointIntervals, r \in {0, MaxRetry}, g \in Ranges,
          d \in BOOLEAN :
         config = [batchSize |-> b, checkpointInterval |-> c, maxRetries |-> r,
                   nftRange |-> g, dryRun |-> d, resumeFromCheckpoint |-> FALSE,
                   batchDelayMs |-> BatchDelay]
    /\ remote = [pads |-> TRUE, flaky |-> FALSE]
    /\ u = IdleFrame
    /\ prev = NoCall
    /\ m = [pc |-> "off"]
    /\ logs = <<>>
    /\ checkpointFile = NoFile
    /\ logFile = NoFile
    /\ summaryFile = NoFile
    /\ failedFile = NoFile
    /\ calls = <<>>
    /\ last = [ended |-> "never"]
    /\ rt = IdleFrame

\* how the previous process ended and the outcomes it logged
Ended ==
    IF m.pc = "off" THEN [ended |-> "never"]
    ELSE [ended |-> m.how,
          failed |-> {logs[j].mint : j \in {i \in DOMAIN logs : logs[i].status = "error"}},
          resolved |-> {logs[j].mint : j \in {i \in DOMAIN logs : logs[i].status # "error"}}]

\* main, lines 118-235: a process starts, with RESUME_FROM_CHECKPOINT set or
\* not in its environment, loads the manifest and plans the run (the operator
\* confirms, or SKIP_CONFIRM is set). The model follows a first process and
\* the process started after it.
\* main, line 181: the working list is empty
NothingToProcessMut(metadata) == FALSE
NothingToProcess(metadata) == Len(metadata) = 0

StartRun ==
    /\ \/ m.pc = "off"
       \/ m.pc \in {"done", "exited"} /\ last.ended = "never"
    /\ \E resume \in BOOLEAN :
         /\ config' = [config EXCEPT !.resumeFromCheckpoint = resume]
         /\ LET plan == ResumePlan(FilterByRange(manifest, config.nftRange), resume)
                locals == [startIndex |-> plan.startIndex,
                           checkpoint |-> plan.checkpoint,
                           metadata |-> plan.metadata,
                           i |-> 0,
                           processedCount |-> 0,
                           updatedCount |-> plan.previousResults.updated,
                           skippedCount |-> plan.previousResults.skipped,
                           failedCount |-> plan.previousResults.failed,
                           failedMints |-> <<>>,
                           processedMints |-> <<>>,
                           delays |-> <<>>]
            IN  m' = IF NothingToProcess(plan.metadata)
                     THEN locals @@ [pc |-> "done", how |-> "nothing to process"]
                     ELSE locals @@ [pc |-> "loop"]
    /\ logs' = <<>>
    /\ calls' = <<>>
    /\ u' = IdleFrame
    /\ last' = Ended
    /\ UNCHANGED <<rt, chain, remote, prev, manifest, checkpointFile, logFile, summaryFile,
                   failedFile>>

\* main, lines 238-249, and processBatch up to the first await of the first
\* record of the batch
BatchStart ==
    /\ m.pc = "loop"
    /\ m.i < Len(m.metadata)
    /\ LET batch == Slice(m.metadata, m.i, m.i + config.batchSize)
       IN  /\ m' = [pc |-> "batch", batch |-> batch, k |-> 1, results |-> <<>>]
                   @@ m
           /\ u' = UpdateStart(batch[1], config.dryRun)
           /\ calls' = Append(calls, batch[1].mint)
    /\ UNCHANGED <<rt, chain, remote, prev, config, manifest, logs, checkpointFile, logFile,
                   summaryFile, failedFile, last>>

\* processBatch, lines 342-346: the call returned; push, logResult, sleep(100)
LogResult ==
    /\ m.pc = "batch"
    /\ u.pc = "returned"
    /\ m' = [m EXCEPT !.pc = "sleep", !.results = Append(@, u.result)]
    /\ logs' = Append(logs, u.result)
    /\ u' = IdleFrame
    /\ UNCHANGED <<rt, chain, remote, prev, config, manifest, checkpointFile, logFile,
                   summaryFile, failedFile, calls, last>>

\* processBatch, lines 331-340: the next record of the batch
NextInBatch ==
    /\ m.pc = "sleep"
    /\ m.k < Len(m.batch)
    /\ m' = [m EXCEPT !.pc = "batch", !.k = @ + 1]
    /\ u' = UpdateStart(m.batch[m.k + 1], config.dryRun)
    /\ calls' = Append(calls, m.batch[m.k + 1].mint)
    /\ UNCHANGED <<rt, chain, remote, prev, config, manifest, logs, checkpointFile, logFile,
                   summaryFile, failedFile, last>>

\* main, lines 252-264: the counters after a batch
RECURSIVE Count(_, _)
Count(results, status) ==
    IF results = <<>> THEN 0
    ELSE (IF Head(results).status = status THEN 1 ELSE 0) + Count(Tail(results), status)

Mints(results) == [j \in DOMAIN results |-> results[j].mint]

UpdateCounters(x, results) ==
    [x EXCEPT !.processedCount = @ + Len(results),
              !.processedMints = @ \o Mints(results),
              !.updatedCount = @ + Count(results, "updated"),
              !.skippedCount = @ + Count(results, "skipped"),
              !.failedCount = @ + Count(results, "error"),
              !.failedMints = @ \o Mints(SelectSeq(results, LAMBDA r : r.status = "error"))]

\* main, lines 269-283: the checkpoint written after a batch, or the file as it was
CheckpointDue(x) == x.processedCount % config.checkpointInterval = 0

CheckpointOfMut(x) ==
    [exists |-> TRUE,
     lastProcessedIndex |-> x.processedCount - 1,
     processedMints |-> x.processedMints,
     summary |-> [processed |-> x.processedCount, updated |-> x.updatedCount,
                  skipped |-> x.skippedCount, failed |-> x.failedCount]]
CheckpointOf(x) ==
    [exists |-> TRUE,
     lastProcessedIndex |-> x.startIndex + x.processedCount - 1,
     processedMints |-> x.processedMints,
     summary |-> [processed |-> x.processedCount, updated |-> x.updatedCount,
                  skipped |-> x.skippedCount, failed |-> x.failedCount]]

\* main, line 286: another batch follows this one
MoreBatchesMut(x) == TRUE
MoreBatches(x) == x.i + config.batchSize < Len(x.metadata)

\* main, lines 251-288: processBatch returned; counters, checkpoint, and the
\* delay before the next batch when there is one
BatchDone ==
    /\ m.pc = "sleep"
    /\ m.k = Len(m.batch)
    /\ LET x == UpdateCounters(m, m.results)
       IN  /\ checkpointFile' = IF CheckpointDue(x) THEN CheckpointOf(x)
                                ELSE checkpointFile
           /\ m' = IF MoreBatches(m)
                   THEN [x EXCEPT !.pc = "delay",
                                  !.delays = Append(@, config.batchDelayMs)]
                   ELSE [x EXCEPT !.pc = "loop", !.i = @ + config.batchSize]
    /\ UNCHANGED <<rt, chain, remote, u, prev, config, manifest, logs, logFile, summaryFile,
                   failedFile, calls, last>>

\* main, lines 287 and 238: the delay between batches ends
DelayEnd ==
    /\ m.pc = "delay"
    /\ m' = [m EXCEPT !.pc = "loop", !.i = @ + config.batchSize]
    /\ UNCHANGED <<rt, chain, remote, u, prev, config, manifest, logs, checkpointFile, logFile,
                   summaryFile, failedFile, calls, last>>

\* main, lines 319-321
KeepCheckpoint(x) == x.failedCount # 0

\* Logger.saveLogs: the log file after the write of the whole logs array
SaveLogsMut == logFile
SaveLogs == [exists |-> TRUE, entries |-> logs]

\* main, lines 291-330: the end of the run
Finish ==
    /\ m.pc = "loop"
    /\ m.i >= Len(m.metadata)
    /\ logFile' = SaveLogs
    /\ summaryFile' =
         [exists |-> TRUE,
          totalProcessed |-> m.processedCount,
          successfullyUpdated |-> m.updatedCount,
          skipped |-> m.skippedCount,
          failed |-> m.failedCount,
          totalCostSOL |-> IF config.dryRun THEN 0 ELSE CalculateTotalCost(logs)]
    /\ failedFile' = IF Len(m.failedMints) > 0
                     THEN [exists |-> TRUE, count |-> Len(m.failedMints),
                           mints |-> m.failedMints]
                     ELSE failedFile
    /\ checkpointFile' = IF KeepCheckpoint(m) THEN checkpointFile ELSE NoFile
    /\ m' = [pc |-> "done", how |-> "completed"] @@ m
    /\ UNCHANGED <<rt, chain, remote, u, prev, config, manifest, logs, calls, last>>

\* setupGracefulShutdown: a signal can be handled where the process is
\* suspended (a timer or a network call is pending)
Suspended ==
    \/ m.pc \in {"sleep", "delay"}
    \/ m.pc = "loop" /\ m.i = 0
    \/ m.pc = "batch" /\ u.pc \in {"fetch", "submit", "backoff"}

\* handleShutdown: SIGINT or SIGTERM; saveLogs, process.exit(0)
Interrupt ==
    /\ Suspended
    /\ logFile' = SaveLogs
    /\ m' = [pc |-> "exited", how |-> "interrupted", code |-> 0]
    /\ u' = IdleFrame
    /\ UNCHANGED <<rt, chain, remote, prev, config, manifest, logs, checkpointFile,
                   summaryFile, failedFile, calls, last>>

\* main, lines 332-335: updateNFTMetadata threw, processBatch and main's try
\* block reject with it, and the catch ends the process with exit code 1;
\* nothing is written
Fatal ==
    /\ m.pc = "batch"
    /\ u.pc = "thrown"
    /\ m' = [pc |-> "exited", how |-> "fatal", code |-> 1]
    /\ u' = IdleFrame
    /\ UNCHANGED <<rt, chain, remote, prev, config, manifest, logs, checkpointFile,
                   logFile, summaryFile, failedFile, calls, last>>

Next ==
    \/ StartRun
    \/ BatchStart
    \/ FetchAttempt
    \/ SubmitOk
    \/ SubmitFail
    \/ Backoff
    \/ LogResult
    \/ NextInBatch
    \/ BatchDone
    \/ DelayEnd
    \/ Finish
    \/ Interrupt
    \/ Fatal

Spec == Init /\ [][Next]_vars

----------------------------------------------------------------------------
(* Claims about updateNFTMetadata, under SpecUpdate *)

\* the trimmed, case-sensitive comparison of the three fields
Differs(a, b) ==
    \/ Trim(a.name) # Trim(b.name)
    \/ Trim(a.symbol) # Trim(b.symbol)
    \/ Trim(a.uri) # Trim(b.uri)

Fetched == u.pc \in {"submit", "backoff", "returned"}

\* the call found the account, the caller is its authority and the values differ
DiffDetected ==
    /\ Fetched
    /\ u.current.found
    /\ u.current.updateAuthority = Wallet
    /\ Differs(u.current, u.metadata)

NoNul(s) == \A j \in DOMAIN s : s[j] # NUL

\* C1: updateNFTMetadata never throws: every call, also one whose mint is not
\* a valid address, returns an outcome whose status is 'updated', 'skipped' or
\* 'error', and an 'error' outcome carries a reason.
C1_NeverThrows ==
    /\ u.pc # "thrown"
    /\ u.pc = "returned" =>
         /\ u.result.status \in {"updated", "skipped", "error"}
         /\ u.result.status = "error" => "error" \in DOMAIN u.result

\* C2 as claimed: a call that is not a dry run and detects a difference makes
\* exactly one submission; every other call makes none.
C2_ExactlyOneSubmission ==
    u.pc = "returned" =>
        u.submits = IF ~u.dryRun /\ DiffDetected THEN 1 ELSE 0

\* C2 as amended: a call that is not a dry run and detects a difference makes
\* between one and maxRetries + 1 submission attempts, each after the failure
\* of the one before it, and ends at the first that is confirmed or when all
\* maxRetries + 1 have failed; every other call makes none.
C2_SubmissionsBounded ==
    /\ u.pc \in {"fetch", "thrown"} => u.submits = 0
    /\ Fetched =>
         IF ~u.dryRun /\ DiffDetected
         THEN /\ u.submits <= config.maxRetries + 1
              /\ u.pc = "returned" =>
                   /\ u.submits >= 1
                   /\ u.result.status \in {"updated", "error"}
                   /\ u.result.status = "updated" => Len(u.delays) = u.submits - 1
                   /\ u.result.status = "error" =>
                        /\ u.submits = config.maxRetries + 1
                        /\ Len(u.delays) = config.maxRetries
         ELSE u.submits = 0 /\ u.pc = "returned"

C2_Witness ==
    /\ u.pc = "returned"
    /\ u.submits = 2
    /\ u.result.status = "updated"

\* C3: when the fetched record's update authority is not the caller's key,
\* the call never reaches the submission step and makes no submission.
C3_AuthorityGate ==
    (Fetched /\ u.current.found /\ u.current.updateAuthority # Wallet) =>
        /\ u.pc = "returned"
        /\ u.submits = 0
        /\ u.result.status = "error"

C3_Witness ==
    /\ u.pc = "returned"
    /\ ~u.dryRun
    /\ u.current.found
    /\ u.current.updateAuthority = Other
    /\ Differs(u.current, u.metadata)
    /\ u.submits = 0

\* the call in progress repeats the target of the call before it, which
\* ended in a confirmed update, and it has fetched the account
SecondCall ==
    /\ prev.done
    /\ u.pc = "returned"
    /\ ~u.dryRun
    /\ u.metadata = prev.metadata
    /\ u.current.found

----------------------------------------------------------------------------
(* Claims about main, under Spec *)

Running == m.pc \in {"loop", "batch", "sleep", "delay", "done"}

Completed == m.pc = "done" /\ m.how = "completed"

MintsOf(records) == [j \in DOMAIN records |-> records[j].mint]

\* the number of records of the manifest whose decoded on-chain values
\* differ (or not) from their target
NumDiffering(differing) ==
    Cardinality({j \in DOMAIN manifest :
        Differs([name |-> SelectSeq(chain[manifest[j].mint].name, LAMBDA c : c # NUL),
                 symbol |-> SelectSeq(chain[manifest[j].mint].symbol, LAMBDA c : c # NUL),
                 uri |-> SelectSeq(chain[manifest[j].mint].uri, LAMBDA c : c # NUL)],
                manifest[j]) = differing})

Authorized(mint) == chain[mint].exists /\ chain[mint].updateAuthority = Wallet

AllAuthorized == \A j \in DOMAIN manifest : Authorized(manifest[j].mint)

\* no account holds values written by a confirmed update (the remote of Spec
\* stores them NUL-padded)
LedgerUntouched ==
    \A x \in DOMAIN chain : chain[x] \in {AccountOfKind(k) : k \in Kinds \cup {"absent"}}

\* C4: dry-run purity. With dryRun = true no call reaches the submission
\* step and the ledger is left as it was; for a found, authorized record the
\* outcome is 'updated' with the current values as old values, the target
\* values as new values and no confirmation id when the values differ, and
\* 'skipped' otherwise; a fresh dry run over a manifest of authorized
\* records ends with as many skipped as match and as many updated as differ.
C4_DryRunPure ==
    config.dryRun =>
        /\ u.pc \notin {"submit", "backoff"}
        /\ u.pc # "idle" => u.submits = 0
        /\ LedgerUntouched
        /\ (u.pc = "returned" /\ u.current.found /\ u.current.updateAuthority = Wallet) =>
             IF Differs(u.current, u.metadata)
             THEN u.result = [mint |-> u.metadata.mint, status |-> "updated",
                              action |-> "dry run - would update",
                              oldValues |-> Values(u.current),
                              newValues |-> Values(u.metadata)]
             ELSE u.result.status = "skipped"
        /\ (Completed /\ ~m.checkpoint.exists /\ AllAuthorized) =>
             /\ m.skippedCount = NumDiffering(FALSE)
             /\ m.updatedCount = NumDiffering(TRUE)
             /\ m.failedCount = 0
             /\ \A j \in DOMAIN logs : "transactionSignature" \notin DOMAIN logs[j]

\* a dry run over three authorized records, one of which already matches
C4_Witness ==
    /\ config.dryRun
    /\ Completed
    /\ ~m.checkpoint.exists
    /\ AllAuthorized
    /\ Len(manifest) = 3
    /\ m.skippedCount = 1
    /\ m.updatedCount = 2

\* this process resumed from a checkpoint that records the k records the
\* interrupted process before it had processed, 0 < k < N
ResumedAfterInterrupt ==
    /\ m.pc = "done"
    /\ config.resumeFromCheckpoint
    /\ m.checkpoint.exists
    /\ last.ended = "interrupted"
    /\ Range(m.checkpoint.processedMints) = last.failed \cup last.resolved
    /\ Len(m.checkpoint.processedMints) > 0
    /\ Len(m.checkpoint.processedMints) < Len(manifest)

\* C6: a run resumed from the checkpoint of a run interrupted after k of the
\* N records processes exactly the remaining N - k records, each once, and
\* none of the k.
C6_ResumeProcessesRemaining ==
    ResumedAfterInterrupt =>
        calls = SelectSeq(MintsOf(manifest),
                          LAMBDA x : x \notin Range(m.checkpoint.processedMints))

\* C7: the final tallies of the resumed run equal those of an uninterrupted
\* run over the same N records: N processed, and updated + skipped + failed
\* = N; in a dry run, where the outcome of a record is decided by the ledger
\* alone, as many updated as differ, skipped as match and failed as are not
\* authorized.
C7_ResumedTalliesEqual ==
    (ResumedAfterInterrupt /\ m.how = "completed") =>
        /\ m.processedCount = Len(manifest)
        /\ m.updatedCount + m.skippedCount + m.failedCount = Len(manifest)
        /\ config.dryRun =>
             /\ m.failedCount =
                  Cardinality({j \in DOMAIN manifest : ~Authorized(manifest[j].mint)})
             /\ m.updatedCount + m.skippedCount =
                  Cardinality({j \in DOMAIN manifest : Authorized(manifest[j].mint)})

\* C8: in a run resumed from a checkpoint, no record whose id is in the
\* checkpoint's processedMints is passed to updateNFTMetadata, the index
\* offset is the checkpoint's lastProcessedIndex + 1, and the updated,
\* skipped and failed tallies are those of the checkpoint plus the outcomes
\* counted in this run.
C8_ResumeSeeds ==
    (Running /\ m.checkpoint.exists) =>
        LET counted == SubSeq(logs, 1, m.processedCount)
        IN  /\ \A j \in DOMAIN calls : calls[j] \notin Range(m.checkpoint.processedMints)
            /\ m.startIndex = m.checkpoint.lastProcessedIndex + 1
            /\ m.updatedCount = m.checkpoint.summary.updated + Count(counted, "updated")
            /\ m.skippedCount = m.checkpoint.summary.skipped + Count(counted, "skipped")
            /\ m.failedCount = m.checkpoint.summary.failed + Count(counted, "error")
            /\ m.processedCount = 0 =>
                 /\ m.updatedCount = m.checkpoint.summary.updated
                 /\ m.skippedCount = m.checkpoint.summary.skipped
                 /\ m.failedCount = m.checkpoint.summary.failed

C8_Witness ==
    /\ Completed
    /\ m.checkpoint.exists
    /\ Len(m.checkpoint.processedMints) > 0
    /\ Len(calls) > 0
    /\ m.checkpoint.summary.updated + m.checkpoint.summary.failed > 0

\* C9: after a run that finished with at least one failed record, a run
\* with resume = true calls updateNFTMetadata on exactly the unresolved
\* records (failed or never processed), once each, and on no record that was
\* updated or skipped.
C9_ResumeRetriesUnresolved ==
    (m.pc = "done" /\ config.resumeFromCheckpoint /\ last.ended = "completed"
       /\ last.failed # {}) =>
        /\ Range(calls) = Range(MintsOf(manifest)) \ last.resolved
        /\ Len(calls) = Cardinality(Range(calls))

\* C10: at normal completion of a run, no checkpoint file exists if no
\* record of this run failed, and a checkpoint file exists if any record
\* failed; a run over records that all have a mismatched authority ends with
\* 0 updated, 0 skipped, all failed and the checkpoint retained.
C10_CheckpointAtCompletion ==
    Completed =>
        /\ Count(logs, "error") = 0 => ~checkpointFile.exists
        /\ Count(logs, "error") > 0 => checkpointFile.exists
        /\ (~m.checkpoint.exists
              /\ \A j \in DOMAIN manifest :
                    /\ chain[manifest[j].mint].exists
                    /\ chain[manifest[j].mint].updateAuthority # Wallet) =>
             /\ m.updatedCount = 0
             /\ m.skippedCount = 0
             /\ m.failedCount = Len(manifest)
             /\ checkpointFile.exists

\* the ids of the 'error' outcomes of a log, in the order they were logged
ErrorMints(results) == Mints(SelectSeq(results, LAMBDA r : r.status = "error"))

\* the step that ends a run normally (main, lines 291-330)
EndsRun == m.pc = "loop" /\ m'.pc = "done"

\* C11: the failed-ids file is written at the end of a run if and only if
\* the run's final failed tally is greater than zero, and when written it
\* lists exactly the ids of the records whose outcome was 'error', in
\* processing order, with count equal to the number of ids listed.
C11_FailedFileIffFailedTally ==
    [][EndsRun =>
         IF m.failedCount > 0
         THEN failedFile' = [exists |-> TRUE,
                             count |-> Len(ErrorMints(logs)),
                             mints |-> ErrorMints(logs)]
         ELSE UNCHANGED failedFile]_vars

\* C12: for every batch size and checkpoint interval, each time the number
\* of records processed in the run reaches a multiple of checkpointInterval,
\* a checkpoint holding the ids processed in the run so far is saved before
\* any later record is processed.
C12_CheckpointEveryInterval ==
    \A k \in 1..(Len(calls) - 1) :
        k % config.checkpointInterval = 0 =>
            /\ checkpointFile.exists
            /\ \E j \in k..Len(calls) :
                 checkpointFile.processedMints = SubSeq(calls, 1, j)

\* the step in which main saves a checkpoint (main, lines 269-283)
SavesCheckpoint == m.pc = "sleep" /\ m'.pc \in {"delay", "loop"} /\ CheckpointDue(m')

\* the ids the checkpoint this run resumed from records as processed
ResumedMints == IF m.checkpoint.exists THEN Range(m.checkpoint.processedMints) ELSE {}

\* C13: every checkpoint saved by main, in a fresh run or in a resumed run,
\* contains the full set of ids processed so far, including the ids that
\* were already recorded as processed in the checkpoint the run resumed from.
C13_CheckpointHoldsAllProcessed ==
    [][SavesCheckpoint =>
         /\ checkpointFile'.exists
         /\ Range(checkpointFile'.processedMints) = ResumedMints \cup Range(calls)]_vars

\* the ids whose outcome is in the outcome log file on disk
LoggedOnDisk == IF logFile.exists THEN Range(Mints(logFile.entries)) ELSE {}

\* C14: in every state where a checkpoint file exists on disk, its
\* processedMints is exactly the set of ids whose outcome is present in the
\* outcome log file on disk at that moment, so also when the process is
\* killed between a checkpoint save and the end of the run.
C14_CheckpointMatchesLogOnDisk ==
    checkpointFile.exists => Range(checkpointFile.processedMints) = LoggedOnDisk

\* C15: in every checkpoint saved by main, lastProcessedIndex equals the
\* run's starting offset plus summary.processed minus 1, where
\* summary.processed is the number of records processed in the run.
C15_LastIndexFromOffset ==
    [][SavesCheckpoint =>
         /\ checkpointFile'.exists
         /\ checkpointFile'.summary.processed = Len(calls)
         /\ checkpointFile'.lastProcessedIndex =
              m'.startIndex + checkpointFile'.summary.processed - 1]_vars

\* a run resumed at an offset greater than zero has saved a checkpoint
C15_Witness ==
    /\ Running
    /\ m.startIndex > 0
    /\ m.processedCount > 0
    /\ checkpointFile.exists
    /\ checkpointFile.processedMints = m.processedMints
    /\ checkpointFile.lastProcessedIndex = m.startIndex + m.processedCount - 1

----------------------------------------------------------------------------
(* Claims about retryWithBackoff, under SpecRetry *)

RetryFinished == rt.pc \in {"resolved", "rejected"}

AllFailed(outcomes) == \A j \in DOMAIN outcomes : outcomes[j] \in FnErrors

RECURSIVE SumSeq(_)
SumSeq(q) == IF q = <<>> THEN 0 ELSE Head(q) + SumSeq(Tail(q))

\* C16: retryWithBackoff with maxRetries = r >= 0 invokes the wrapped
\* operation at most r + 1 times; exactly r + 1 times when every attempt
\* fails; and it makes no further invocation after the first attempt that
\* succeeds.
C16_AtMostRPlusOneInvocations ==
    rt.pc # "idle" =>
        /\ Len(rt.outcomes) <= rt.maxRetries + 1
        /\ (RetryFinished /\ AllFailed(rt.outcomes)) =>
             Len(rt.outcomes) = rt.maxRetries + 1
        /\ \A j \in 1..(Len(rt.outcomes) - 1) : rt.outcomes[j] \in FnErrors
        /\ (rt.outcomes # <<>> /\ rt.outcomes[Len(rt.outcomes)] \in FnValues) =>
             rt.pc = "resolved"

C16_Witness ==
    /\ rt.pc = "rejected"
    /\ rt.maxRetries = 2
    /\ Len(rt.outcomes) = 3

\* C17: after the failure of attempt a (counted from 0) with a < maxRetries
\* the sleep requested before attempt a + 1 is baseDelay * 2^a, and no sleep
\* follows the last attempt; when all r + 1 attempts fail the delays
\* requested add up to baseDelay * (2^r - 1).
C17_BackoffDelays ==
    rt.pc # "idle" =>
        /\ \A a \in DOMAIN rt.delays : rt.delays[a] = rt.baseDelay * 2^(a - 1)
        /\ rt.pc = "sleep" =>
             /\ rt.attempt < rt.maxRetries
             /\ Len(rt.delays) = rt.attempt + 1
             /\ Len(rt.outcomes) = rt.attempt + 1
        /\ rt.pc = "invoke" =>
             /\ Len(rt.delays) = rt.attempt
             /\ Len(rt.outcomes) = rt.attempt
        /\ rt.pc = "resolved" => Len(rt.delays) = Len(rt.outcomes) - 1
        /\ rt.pc = "rejected" =>
             /\ Len(rt.delays) = rt.maxRetries
             /\ SumSeq(rt.delays) = rt.baseDelay * (2^rt.maxRetries - 1)

C17_Witness ==
    /\ rt.pc = "rejected"
    /\ rt.maxRetries = 3
    /\ rt.delays = <<1000, 2000, 4000>>

\* C18: retryWithBackoff returns the value of the first successful attempt;
\* if all maxRetries + 1 attempts fail it fails with exactly the error raised
\* by the last attempt, not an earlier one and not a wrapped one.
C18_ValueOrLastError ==
    /\ rt.pc = "resolved" =>
         /\ rt.result = [kind |-> "value", value |-> rt.outcomes[Len(rt.outcomes)]]
         /\ \A j \in 1..(Len(rt.outcomes) - 1) : rt.outcomes[j] \notin FnValues
    /\ rt.pc = "rejected" =>
         /\ Len(rt.outcomes) = rt.maxRetries + 1
         /\ AllFailed(rt.outcomes)
         /\ rt.result = [kind |-> "error",
                         thrown |-> [defined |-> TRUE,
                                     error |-> rt.outcomes[Len(rt.outcomes)]]]

C18_Witness ==
    /\ rt.pc = "rejected"
    /\ rt.outcomes = <<"e1", "e2">>
    /\ rt.result.thrown.error = "e2"

----------------------------------------------------------------------------
(* Claims about fetch failures *)

\* the call returned after a fetch that failed although the account exists:
\* getAccountInfo (or the parse) raised an error
FetchErrored ==
    /\ u.pc = "returned"
    /\ ~u.current.found
    /\ chain[u.metadata.mint].exists

\* C19: a transient fetch error during update is retried: the fetch is
\* attempted again, up to maxRetries + 1 attempts in total with backoff, and
\* only after all attempts have failed does the record get an 'error'
\* outcome.
C19_FetchErrorRetried ==
    FetchErrored =>
        /\ u.result.status = "error"
        /\ u.fetches = config.maxRetries + 1
        /\ Len(u.delays) = config.maxRetries

\* the call in progress is on a record whose metadata account is absent
OnAbsent == u.pc \in {"fetch", "submit", "backoff", "returned"}
            /\ ~chain[u.metadata.mint].exists

\* the outcome of an absent record is the last one logged and processBatch
\* is at the sleep that follows it
AbsentJustLogged ==
    /\ m.pc = "sleep"
    /\ logs # <<>>
    /\ ~chain[logs[Len(logs)].mint].exists

\* C20: when the remote entry of a record is absent, the call makes exactly
\* one fetch, no retry and no backoff delay and returns an 'error' outcome at
\* once; main goes on to the next record: the step that takes up the next
\* record of the batch, or ends the batch, is enabled, and a run that
\* completes has passed every record of its working list to
\* updateNFTMetadata.
C20_AbsentFailsAtOnce ==
    /\ OnAbsent =>
         /\ u.pc \in {"fetch", "returned"}
         /\ u.submits = 0
         /\ u.delays = <<>>
         /\ u.pc = "fetch" => u.fetches = 0
         /\ u.pc = "returned" =>
              /\ u.fetches = 1
              /\ u.result = ErrorResult(u.metadata.mint,
                                        [message |-> "Failed to fetch current metadata"])
    /\ AbsentJustLogged =>
         /\ logs[Len(logs)].status = "error"
         /\ IF m.k < Len(m.batch) THEN ENABLED NextInBatch ELSE ENABLED BatchDone
    /\ Completed => calls = MintsOf(m.metadata)

\* a run whose first record has no metadata account went on and completed,
\* and the record after it was not a failure
C20_Witness ==
    /\ Completed
    /\ Len(logs) >= 2
    /\ ~chain[logs[1].mint].exists
    /\ logs[1].status = "error"
    /\ logs[2].status = "updated"
    /\ calls = MintsOf(manifest)

----------------------------------------------------------------------------
(* Claims about the error outcomes of updateNFTMetadata, under SpecUpdate *)

\* C21: when the fetched record's update authority is not the caller's key,
\* the call returns an 'error' outcome at once, after its one fetch and
\* without retry, delay or submission, and the reason of the outcome records
\* both the expected identity (the caller's key) and the identity found (the
\* on-chain authority).
C21_MismatchFailsAtOnce ==
    (Fetched /\ u.current.found /\ u.current.updateAuthority # Wallet) =>
        /\ u.pc = "returned"
        /\ u.fetches = 1
        /\ u.delays = <<>>
        /\ u.submits = 0
        /\ u.result.status = "error"
        /\ u.result.error.message = "Update authority mismatch"
        /\ u.result.error.expected = Wallet
        /\ u.result.error.found = chain[u.metadata.mint].updateAuthority

C21_Witness ==
    /\ u.pc = "returned"
    /\ u.current.found
    /\ chain[u.metadata.mint].updateAuthority = Other
    /\ u.result.status = "error"
    /\ u.result.error.expected = Wallet
    /\ u.result.error.found = Other
    /\ u.fetches = 1

\* C22: a failing submission is retried, up to maxRetries + 1 attempts in
\* all, and only when all of them have failed does the call return an
\* 'error' outcome, which carries the error of the last attempt; the
\* submission step starts with its own attempt counter at zero, whatever the
\* fetch step did before it.
C22_SubmitRetriedToBudget ==
    /\ u.pc \in {"submit", "backoff"} =>
         /\ u.attempt <= config.maxRetries
         /\ u.submits = IF u.pc = "submit" THEN u.attempt ELSE u.attempt + 1
         /\ u.pc = "backoff" => u.attempt < config.maxRetries
    /\ (u.pc = "returned" /\ u.submits > 0 /\ u.result.status = "error") =>
         /\ u.submits = config.maxRetries + 1
         /\ u.result.error = [message |-> "send failed",
                              attempt |-> config.maxRetries]
    /\ (u.pc = "returned" /\ u.submits > 0) =>
         u.result.status \in {"updated", "error"}

C22_Witness ==
    /\ u.pc = "returned"
    /\ config.maxRetries = 1
    /\ u.fetches = 1
    /\ u.submits = 2
    /\ u.result.status = "error"
    /\ u.result.error.attempt = 1

----------------------------------------------------------------------------
(* Claims about the batch loop and the shutdown path, under Spec *)

\* C23: a per-record failure never aborts the run: the outcomes logged are
\* those of the first records of the working list, one each, in manifest
\* order; a run that completes has logged one outcome for every record of
\* its working list; and the process never exits with a non-zero code.
C23_FailureNeverAborts ==
    /\ m.pc = "exited" => m.code = 0
    /\ Running =>
         /\ Len(logs) <= Len(m.metadata)
         /\ Mints(logs) = SubSeq(MintsOf(m.metadata), 1, Len(logs))
    /\ Completed => Mints(logs) = MintsOf(m.metadata)

\* the fetch or the submission of a record is under way
InFlight == m.pc = "batch" /\ u.pc \in {"fetch", "submit", "backoff"}

\* C24: main cuts the working list into consecutive batches of batchSize
\* records, the last one possibly shorter, and processes the records in list
\* order, one call of updateNFTMetadata at a time: when the call on a record
\* starts, every record before it has its outcome logged.
C24_InOrderOneAtATime ==
    Running =>
        /\ Len(calls) <= Len(m.metadata)
        /\ calls = SubSeq(MintsOf(m.metadata), 1, Len(calls))
        /\ Len(logs) <= Len(calls)
        /\ Len(calls) <= Len(logs) + 1
        /\ Mints(logs) = SubSeq(calls, 1, Len(logs))
        /\ InFlight => Len(calls) = Len(logs) + 1
        /\ m.pc \in {"batch", "sleep"} =>
             /\ m.i % config.batchSize = 0
             /\ m.batch = SubSeq(m.metadata, m.i + 1,
                                 Min(m.i + config.batchSize, Len(m.metadata)))
             /\ Len(m.batch) = config.batchSize
                  \/ m.i + Len(m.batch) = Len(m.metadata)
             /\ Len(calls) = m.i + m.k

\* the only record of the second batch is in flight
C24_Witness ==
    /\ InFlight
    /\ config.batchSize = 2
    /\ m.i = 2
    /\ Len(m.batch) = 1
    /\ Len(logs) = 2
    /\ Len(calls) = 3

NumBatches(x) == (Len(x.metadata) + config.batchSize - 1) \div config.batchSize

\* C25: between the last record of a batch and the first record of the next
\* one main suspends for batchDelayMs, after the checkpoint save due for
\* that batch; no such suspension follows the last batch.
C25_DelayBetweenBatches ==
    (m.pc \in {"loop", "batch", "sleep", "delay"} \/ Completed) =>
        /\ \A j \in DOMAIN m.delays : m.delays[j] = config.batchDelayMs
        /\ m.pc \in {"batch", "sleep"} =>
             Len(m.delays) = m.i \div config.batchSize
        /\ m.pc = "delay" =>
             /\ m.i + config.batchSize < Len(m.metadata)
             /\ Len(m.delays) = m.i \div config.batchSize + 1
             /\ CheckpointDue(m) => checkpointFile = CheckpointOf(m)
        /\ (m.pc = "loop" /\ m.i < Len(m.metadata)) =>
             Len(m.delays) = m.i \div config.batchSize
        /\ ((m.pc = "loop" /\ m.i >= Len(m.metadata)) \/ Completed) =>
             Len(m.delays) = NumBatches(m) - 1

\* main is suspended between two batches, after it saved the checkpoint
C25_Witness ==
    /\ m.pc = "delay"
    /\ CheckpointDue(m)
    /\ checkpointFile = CheckpointOf(m)
    /\ m.delays = <<config.batchDelayMs>>
    /\ Len(logs) = config.batchSize

\* the step in which the signal handler ends the process
Interrupted == m.pc # "exited" /\ m'.pc = "exited" /\ m'.how = "interrupted"

C27_InFlightFinishedFirst ==
    (m.pc = "exited" /\ m.how = "interrupted") =>
        /\ logFile.exists
        /\ Mints(logFile.entries) = calls

----------------------------------------------------------------------------
(* saveCheckpoint and loadCheckpoint on the bytes of the checkpoint file.

   In SpecCheckpoint the variable checkpointFile holds the text of the file
   as a sequence of JSON tokens, m is the frame of saveCheckpoint (the
   checkpoint it writes, the file position, and what loadCheckpoint
   returned before the save began) and last is what loadCheckpoint
   returned to the process started after a crash. *)

\* the checkpoint main saves after n records (types.ts, lines 270-281)
CheckpointAfter(n) ==
    [lastProcessedIndex |-> n - 1,
     processedMints |-> [j \in 1..n |-> AllMints[j]],
     summary |-> [processed |-> n, updated |-> n, skipped |-> 0, failed |-> 0]]

Checkpoints == {CheckpointAfter(n) : n \in 1..MaxRecords}

\* JSON.stringify(checkpoint, null, 2): the text, token by token
Stringify(cp) ==
    <<[t |-> "{"], [t |-> "lastProcessedIndex", v |-> cp.lastProcessedIndex],
      [t |-> "["]>>
    \o [j \in 1..Len(cp.processedMints) |-> [t |-> "mint", v |-> cp.processedMints[j]]]
    \o <<[t |-> "]"], [t |-> "summary", v |-> cp.summary], [t |-> "}"]>>

\* JSON.parse(data): the value of a well-formed text, a SyntaxError otherwise
ParseJSON(data) ==
    LET n == Len(data)
        wellFormed ==
            /\ n >= 6
            /\ data[1].t = "{"
            /\ data[2].t = "lastProcessedIndex"
            /\ data[3].t = "["
            /\ \A j \in 4..(n - 3) : data[j].t = "mint"
            /\ data[n - 2].t = "]"
            /\ data[n - 1].t = "summary"
            /\ data[n].t = "}"
    IN  IF wellFormed
        THEN [ok |-> TRUE,
              value |-> [lastProcessedIndex |-> data[2].v,
                         processedMints |-> [j \in 1..(n - 6) |-> data[j + 3].v],
                         summary |-> data[n - 1].v]]
        ELSE [ok |-> FALSE]

\* loadCheckpoint, lines 146-158: null when the file is missing or its text
\* does not parse
LoadCheckpointFrom(file) ==
    IF ~file.exists THEN Null
    ELSE LET parsed == ParseJSON(file.data)
         IN  IF parsed.ok THEN [found |-> TRUE, checkpoint |-> parsed.value]
             ELSE Null

\* fs.writeFileSync opens the file with flag 'w': created or truncated
OpenForWriteMut(file) == IF file.exists THEN file ELSE [exists |-> TRUE, data |-> <<>>]
OpenForWrite(file) == [exists |-> TRUE, data |-> <<>>]

\* write(fd, text, pos .. pos + n): n tokens of text written at position pos
WriteAt(data, text, pos, n) ==
    SubSeq(text, 1, pos + n) \o SubSeq(data, pos + n + 1, Len(data))

InitCheckpoint ==
    /\ checkpointFile = NoFile
    /\ m = [pc |-> "idle"]
    /\ last = Null
    /\ rt = IdleFrame
    /\ chain = [x \in {"m1"} |-> Absent]
    /\ remote = [pads |-> FALSE, flaky |-> FALSE]
    /\ u = IdleFrame
    /\ prev = NoCall
    /\ config = [maxRetries |-> 0]
    /\ manifest = <<>>
    /\ logs = <<>>
    /\ logFile = NoFile
    /\ summaryFile = NoFile
    /\ failedFile = NoFile
    /\ calls = <<>>

\* saveCheckpoint, lines 132-137: called with a checkpoint
SaveCheckpointCall ==
    /\ m.pc = "idle"
    /\ \E cp \in Checkpoints :
         m' = [pc |-> "open", checkpoint |-> cp, pos |-> 0,
               before |-> LoadCheckpointFrom(checkpointFile)]
    /\ UNCHANGED <<rt, chain, remote, u, prev, config, manifest, logs, checkpointFile,
                   logFile, summaryFile, failedFile, calls, last>>

\* line 138, writeFileSync: open
WriteOpen ==
    /\ m.pc = "open"
    /\ checkpointFile' = OpenForWrite(checkpointFile)
    /\ m' = [m EXCEPT !.pc = "write"]
    /\ UNCHANGED <<rt, chain, remote, u, prev, config, manifest, logs, logFile,
                   summaryFile, failedFile, calls, last>>

\* line 138, writeFileSync: one write, of a part of what is left of the text
WriteChunk ==
    /\ m.pc = "write"
    /\ LET text == Stringify(m.checkpoint)
       IN  \E n \in 1..(Len(text) - m.pos) :
             /\ checkpointFile' = [checkpointFile EXCEPT
                                     !.data = WriteAt(@, text, m.pos, n)]
             /\ m' = [m EXCEPT !.pos = @ + n,
                               !.pc = IF m.pos + n = Len(text) THEN "close" ELSE "write"]
    /\ UNCHANGED <<rt, chain, remote, u, prev, config, manifest, logs, logFile,
                   summaryFile, failedFile, calls, last>>

\* line 138-139, writeFileSync: close, and saveCheckpoint returns
WriteClose ==
    /\ m.pc = "close"
    /\ m' = [pc |-> "idle"]
    /\ UNCHANGED <<rt, chain, remote, u, prev, config, manifest, logs, checkpointFile,
                   logFile, summaryFile, failedFile, calls, last>>

\* the process dies at a point of saveCheckpoint
Crash ==
    /\ m.pc \in {"open", "write", "close"}
    /\ m' = [m EXCEPT !.pc = "crashed"]
    /\ UNCHANGED <<rt, chain, remote, u, prev, config, manifest, logs, checkpointFile,
                   logFile, summaryFile, failedFile, calls, last>>

\* the next process reads the checkpoint (main, line 164)
Restart ==
    /\ m.pc = "crashed"
    /\ last' = LoadCheckpointFrom(checkpointFile)
    /\ m' = [pc |-> "idle"]
    /\ UNCHANGED <<rt, chain, remote, u, prev, config, manifest, logs, checkpointFile,
                   logFile, summaryFile, failedFile, calls>>

NextCheckpoint ==
    \/ SaveCheckpointCall
    \/ WriteOpen
    \/ WriteChunk
    \/ WriteClose
    \/ Crash
    \/ Restart

SpecCheckpoint == InitCheckpoint /\ [][NextCheckpoint]_vars

\* C28: a reader of the checkpoint never observes a mix of two checkpoints:
\* at every point of saveCheckpoint, and so after a crash at that point,
\* loadCheckpoint returns the complete previous checkpoint, the complete new
\* checkpoint or null; a partially written file does not parse and reads as
\* null; after saveCheckpoint returned it returns the new checkpoint.
C28_NoMixedCheckpoint ==
    LET read == LoadCheckpointFrom(checkpointFile)
        new == [found |-> TRUE, checkpoint |-> m.checkpoint]
    IN  /\ m.pc \in {"open", "write", "close", "crashed"} =>
              /\ read \in {Null, m.before, new}
              /\ (m.pos > 0 /\ m.pos < Len(Stringify(m.checkpoint))) => read = Null
              /\ m.pos = Len(Stringify(m.checkpoint)) => read = new
        /\ last = Null \/ last.checkpoint \in Checkpoints
        /\ m.pc = "idle" => (read = Null \/ read.checkpoint \in Checkpoints)

\* a crash in the middle of the write of a shorter checkpoint over a longer
\* one: the file holds a part of the new text and reads as null
C28_Witness ==
    /\ m.pc = "crashed"
    /\ m.before = [found |-> TRUE, checkpoint |-> CheckpointAfter(2)]
    /\ m.checkpoint = CheckpointAfter(1)
    /\ m.pos = 4
    /\ LoadCheckpointFrom(checkpointFile) = Null

----------------------------------------------------------------------------
(* loadConfig and the start of main, up to the range filter.

   In SpecConfig m holds the process environment (env: the text of each
   variable, <<>> when unset), which of the two input files exist (fs) and
   main's position; config holds what loadConfig returned; calls records the
   remote calls made. *)

Digits == <<"0", "1", "2", "3", "4", "5", "6", "7", "8", "9">>
IsDigit(c) == \E d \in DOMAIN Digits : Digits[d] = c
DigitVal(c) == (CHOOSE d \in DOMAIN Digits : Digits[d] = c) - 1

RECURSIVE LeadingDigits(_)
LeadingDigits(s) ==
    IF s # <<>> /\ IsDigit(Head(s)) THEN <<Head(s)>> \o LeadingDigits(Tail(s))
    ELSE <<>>

RECURSIVE DecimalValue(_)
DecimalValue(ds) ==
    IF ds = <<>> THEN 0
    ELSE 10 * DecimalValue(SubSeq(ds, 1, Len(ds) - 1)) + DigitVal(ds[Len(ds)])

\* JavaScript numbers: NaN, or an integer
NaN == [nan |-> TRUE]
Num(n) == [nan |-> FALSE, val |-> n]
\* a < k and a <= k: false when a is NaN
NumLt(a, k) == ~a.nan /\ a.val < k
NumLe(a, k) == ~a.nan /\ a.val <= k

\* parseInt(str, 10): white space, a sign, then the longest run of digits;
\* NaN when there is no digit there
ParseInt(str) ==
    LET s == TrimStart(str)
        signed == s # <<>> /\ Head(s) \in {"-", "+"}
        ds == LeadingDigits(IF signed THEN Tail(s) ELSE s)
    IN  IF ds = <<>> THEN NaN
        ELSE IF signed /\ Head(s) = "-" THEN Num(0 - DecimalValue(ds))
        ELSE Num(DecimalValue(ds))

\* String.prototype.split('-')
RECURSIVE Split(_)
Split(s) ==
    IF \A j \in DOMAIN s : s[j] # "-" THEN <<s>>
    ELSE LET k == CHOOSE j \in DOMAIN s :
                    s[j] = "-" /\ \A h \in 1..(j - 1) : s[h] # "-"
         IN  <<SubSeq(s, 1, k - 1)>> \o Split(SubSeq(s, k + 1, Len(s)))

\* process.env.X || 'default'
OrDefault(v, default) == IF v = <<>> THEN default ELSE v

Throw(message) == [ok |-> FALSE, error |-> message]

\* config.ts, lines 18-44
ParseNFTRange(rangeStr) ==
    IF rangeStr = <<>> \/ Trim(rangeStr) = <<>>
    THEN [ok |-> TRUE, value |-> [given |-> FALSE]]
    ELSE LET parts == Split(rangeStr)
         IN  IF Len(parts) # 2 THEN Throw("Invalid NFT_RANGE format")
             ELSE LET start == ParseInt(parts[1])
                      end == ParseInt(parts[2])
                  IN  IF start.nan \/ end.nan THEN Throw("Invalid NFT_RANGE values")
                      ELSE IF start.val < 0 \/ end.val < 0
                      THEN Throw("NFT_RANGE values must be non-negative")
                      ELSE IF start.val > end.val
                      THEN Throw("NFT_RANGE start must be less than or equal to end")
                      ELSE [ok |-> TRUE,
                            value |-> [given |-> TRUE, start |-> start.val,
                                       end |-> end.val]]

\* config.ts, lines 50-106
LoadConfig(env, fs) ==
    LET nftRange == ParseNFTRange(env.NFT_RANGE)
        network == IF env.NETWORK = "" THEN "devnet" ELSE env.NETWORK
        batchSize == ParseInt(OrDefault(env.BATCH_SIZE, <<"2", "5">>))
        batchDelayMs == ParseInt(OrDefault(env.BATCH_DELAY_MS, <<"5", "0", "0">>))
        maxRetries == ParseInt(OrDefault(env.MAX_RETRIES, <<"3">>))
        retryDelayMs == ParseInt(OrDefault(env.RETRY_DELAY_MS, <<"1", "0", "0", "0">>))
        checkpointInterval == ParseInt(OrDefault(env.CHECKPOINT_INTERVAL, <<"1", "0", "0">>))
    IN  IF ~nftRange.ok THEN nftRange
        ELSE IF network \notin {"mainnet-beta", "devnet"}
        THEN Throw("NETWORK must be either mainnet-beta or devnet")
        ELSE IF ~fs.wallet THEN Throw("Wallet keypair file not found")
        ELSE IF ~fs.csv THEN Throw("CSV file not found")
        ELSE IF NumLe(batchSize, 0) THEN Throw("BATCH_SIZE must be greater than 0")
        ELSE IF NumLt(batchDelayMs, 0) THEN Throw("BATCH_DELAY_MS must be non-negative")
        ELSE IF NumLt(maxRetries, 0) THEN Throw("MAX_RETRIES must be non-negative")
        ELSE IF NumLt(retryDelayMs, 0) THEN Throw("RETRY_DELAY_MS must be non-negative")
        ELSE IF NumLe(checkpointInterval, 0)
        THEN Throw("CHECKPOINT_INTERVAL must be greater than 0")
        ELSE [ok |-> TRUE,
              config |-> [network |-> network,
                          batchSize |-> batchSize,
                          batchDelayMs |-> batchDelayMs,
                          nftRange |-> nftRange.value,
                          maxRetries |-> maxRetries,
                          retryDelayMs |-> retryDelayMs,
                          checkpointInterval |-> checkpointInterval]]

\* the environments of the model
BatchSizeTexts == {<<>>, <<"2">>, <<"0">>, <<"x">>, <<"2", "x">>}
IntervalTexts == {<<>>, <<"0">>, <<"x">>}
DelayTexts == {<<>>, <<"-", "1">>}
RetryTexts == {<<>>, <<"-", "1">>, <<"x">>}
RangeTexts ==
    {<<>>, <<"0", "-", "1">>, <<"1", "-", "1">>, <<"1", "-", "5">>,
     <<"3", "-", "3">>, <<"5", "-", "9">>, <<"2", "-", "1">>, <<"1">>,
     <<"1", "x", "-", "2", "y">>, <<"-", "1", "-", "2">>, <<"a", "-", "b">>}
Environments ==
    [BATCH_SIZE : BatchSizeTexts, BATCH_DELAY_MS : DelayTexts,
     MAX_RETRIES : RetryTexts, RETRY_DELAY_MS : DelayTexts,
     CHECKPOINT_INTERVAL : IntervalTexts, NFT_RANGE : RangeTexts,
     NETWORK : {"", "testnet"}]

InitConfig ==
    /\ \E n \in 1..MaxRecords :
         manifest = [j \in 1..n |-> Target(AllMints[j], TargetVal)]
    /\ \E env \in Environments : \E wallet \in BOOLEAN : \E csv \in BOOLEAN :
         m = [pc |-> "start", env |-> env, fs |-> [wallet |-> wallet, csv |-> csv]]
    /\ config = [loaded |-> FALSE]
    /\ calls = <<>>
    /\ rt = IdleFrame
    /\ chain = [x \in {"m1"} |-> Absent]
    /\ remote = [pads |-> FALSE, flaky |-> FALSE]
    /\ u = IdleFrame
    /\ prev = NoCall
    /\ logs = <<>>
    /\ checkpointFile = NoFile
    /\ logFile = NoFile
    /\ summaryFile = NoFile
    /\ failedFile = NoFile
    /\ last = NoCall

\* main, lines 118-120 and 332-335: loadConfig returns, or throws and main's
\* catch ends the process with code 1
LoadConfigCall ==
    /\ m.pc = "start"
    /\ LET r == LoadConfig(m.env, m.fs)
       IN  IF r.ok
           THEN /\ config' = r.config
                /\ m' = [m EXCEPT !.pc = "configured"]
           ELSE /\ config' = config
                /\ m' = [pc |-> "exited", how |-> "fatal", code |-> 1,
                         error |-> r.error, env |-> m.env, fs |-> m.fs]
    /\ UNCHANGED <<rt, chain, remote, u, prev, manifest, logs, checkpointFile, logFile,
                   summaryFile, failedFile, calls, last>>

\* main, lines 121-146: logger, wallet, connection, and the balance request
CheckBalance ==
    /\ m.pc = "configured"
    /\ calls' = Append(calls, "getBalance")
    /\ m' = [m EXCEPT !.pc = "connected"]
    /\ UNCHANGED <<rt, chain, remote, u, prev, config, manifest, logs, checkpointFile,
                   logFile, summaryFile, failedFile, last>>

\* main, lines 148-156: the manifest is parsed and the range filter applied
ApplyRange ==
    /\ m.pc = "connected"
    /\ m' = [pc |-> "filtered", env |-> m.env, fs |-> m.fs,
             allMetadata |-> FilterByRange(manifest, config.nftRange)]
    /\ UNCHANGED <<rt, chain, remote, u, prev, config, manifest, logs, checkpointFile,
                   logFile, summaryFile, failedFile, calls, last>>

NextConfig ==
    \/ LoadConfigCall
    \/ CheckBalance
    \/ ApplyRange

SpecConfig == InitConfig /\ [][NextConfig]_vars

\* the text is an integer in decimal notation
IsInteger(v) ==
    LET body == IF v # <<>> /\ Head(v) = "-" THEN Tail(v) ELSE v
    IN  body # <<>> /\ \A j \in DOMAIN body : IsDigit(body[j])
IntegerOf(v) ==
    IF Head(v) = "-" THEN 0 - DecimalValue(Tail(v)) ELSE DecimalValue(v)

\* the range text has the form START-END with start <= end
IsRange(v) ==
    \E k \in 2..(Len(v) - 1) :
        /\ v[k] = "-"
        /\ \A j \in DOMAIN v : j # k => IsDigit(v[j])
        /\ DecimalValue(SubSeq(v, 1, k - 1)) <= DecimalValue(SubSeq(v, k + 1, Len(v)))

\* the configuration errors of the environment: a range that is not
\* START-END with start <= end, a missing wallet or manifest file, a numeric
\* flag that is not a number or is out of its range
ConfigError(env, fs) ==
    \/ env.NFT_RANGE # <<>> /\ ~IsRange(env.NFT_RANGE)
    \/ ~fs.wallet
    \/ ~fs.csv
    \/ \E v \in {env.BATCH_SIZE, env.CHECKPOINT_INTERVAL} :
         v # <<>> /\ (~IsInteger(v) \/ IntegerOf(v) <= 0)
    \/ \E v \in {env.BATCH_DELAY_MS, env.MAX_RETRIES, env.RETRY_DELAY_MS} :
         v # <<>> /\ (~IsInteger(v) \/ IntegerOf(v) < 0)

\* C29: every configuration error makes loadConfig fail: the process exits
\* with code 1 before any remote call, any record update and any write of a
\* checkpoint or log file.
C29_ConfigErrorsAbort ==
    (m.pc # "start" /\ ConfigError(m.env, m.fs)) =>
        /\ m.pc = "exited"
        /\ m.code = 1
        /\ calls = <<>>
        /\ logs = <<>>
        /\ checkpointFile = NoFile
        /\ logFile = NoFile

\* C30: the range filter START-END is inclusive at both ends: for a
\* manifest of N records and 0 <= start <= end the working list is the
\* records at indices start..min(end, N-1) in their order, empty when
\* start >= N; without a range it is the manifest.
C30_RangeInclusive ==
    m.pc = "filtered" =>
        LET range == config.nftRange
            N == Len(manifest)
            hi == Min(range.end, N - 1)
        IN  IF ~range.given THEN m.allMetadata = manifest
            ELSE /\ 0 <= range.start
                 /\ range.start <= range.end
                 /\ Len(m.allMetadata) = IF range.start >= N THEN 0
                                         ELSE hi - range.start + 1
                 /\ \A j \in 1..Len(m.allMetadata) :
                      m.allMetadata[j] = manifest[range.start + j]

\* NFT_RANGE=1-1 selects the second record alone
C30_Witness ==
    /\ m.pc = "filtered"
    /\ m.env.NFT_RANGE = <<"1", "-", "1">>
    /\ Len(manifest) = 3
    /\ m.allMetadata = <<manifest[2]>>

----------------------------------------------------------------------------
(* The bytes of a metadata account: encodeString's layout of a string and
   the parser of fetchCurrentMetadata.

   In SpecCodec chain["m1"].data is the account data getAccountInfo
   returns, a sequence of bytes; prev records how the account was laid out
   (its authority, the three strings, the padding) when the call fetched
   it and whether bytes were cut off its end; u is the frame of one call of
   updateNFTMetadata. *)

PUBLIC_KEY_LENGTH == 32
REPLACEMENT == "U+FFFD"         \* what toString('utf-8') gives for a broken sequence

\* the characters of the model and their UTF-8 bytes
Utf8Of(c) ==
    CASE c = NUL -> <<0>>
      [] c = SP -> <<32>>
      [] c = "a" -> <<97>>
      [] c = "b" -> <<98>>
      [] c = "s" -> <<115>>
      [] c = "u" -> <<117>>
      [] c = "v" -> <<118>>
      [] c = "é" -> <<195, 169>>
OneByteChars == {NUL, SP, "a", "b", "s", "u", "v"}

\* Buffer.from(str, 'utf8')
RECURSIVE Utf8Encode(_)
Utf8Encode(str) ==
    IF str = <<>> THEN <<>> ELSE Utf8Of(Head(str)) \o Utf8Encode(Tail(str))

\* buf.toString('utf-8')
RECURSIVE Utf8Decode(_)
Utf8Decode(bytes) ==
    IF bytes = <<>> THEN <<>>
    ELSE IF Len(bytes) >= 2 /\ SubSeq(bytes, 1, 2) = Utf8Of("é")
    THEN <<"é">> \o Utf8Decode(SubSeq(bytes, 3, Len(bytes)))
    ELSE IF \E c \in OneByteChars : Utf8Of(c) = <<Head(bytes)>>
    THEN <<CHOOSE c \in OneByteChars : Utf8Of(c) = <<Head(bytes)>> >>
         \o Utf8Decode(Tail(bytes))
    ELSE <<REPLACEMENT>> \o Utf8Decode(Tail(bytes))

\* length.writeUInt32LE(n, 0)
WriteUInt32LE(n) ==
    <<n % 256, (n \div 256) % 256, (n \div 65536) % 256, (n \div 16777216) % 256>>

\* encodeString, lines 94-99
EncodeString(str) ==
    LET strBytes == Utf8Encode(str)
    IN  WriteUInt32LE(Len(strBytes)) \o strBytes

\* a string field of an account: as encodeString lays it out, with pad NUL
\* bytes inside the length-prefixed field
PaddedField(str, pad) ==
    LET strBytes == Utf8Encode(str)
    IN  WriteUInt32LE(Len(strBytes) + pad) \o strBytes \o [j \in 1..pad |-> 0]

\* the 32 bytes of the keys of the model
KeyBytes(key) ==
    [j \in 1..PUBLIC_KEY_LENGTH |-> IF key = Wallet THEN 87 ELSE 88]

\* new PublicKey(bytes): the key whose number the bytes are; bytes shorter
\* than 32 are a smaller number, the same as with zero bytes in front
PublicKeyOf(bytes) ==
    LET padded == [j \in 1..(PUBLIC_KEY_LENGTH - Len(bytes)) |-> 0] \o bytes
    IN  IF \E key \in {Wallet, Other} : KeyBytes(key) = padded
        THEN CHOOSE key \in {Wallet, Other} : KeyBytes(key) = padded
        ELSE "unknown key"

\* the account: key byte, update authority, mint, name, symbol, uri
AccountData(authority, v, pad) ==
    <<4>> \o KeyBytes(authority) \o KeyBytes(Other)
    \o PaddedField(v.name, pad) \o PaddedField(v.symbol, pad) \o PaddedField(v.uri, pad)

\* data.slice(start, end) of a Buffer: the ends are clamped to the data
BufSlice(data, start, end) ==
    SubSeq(data, Min(start, Len(data)) + 1, Min(end, Len(data)))

\* data.readUInt32LE(offset): a RangeError when 4 bytes are not there
ReadUInt32LEMut(data, offset) ==
    IF offset + 4 > Len(data) THEN [ok |-> FALSE]
    ELSE [ok |-> TRUE,
          val |-> data[offset + 4] + 256 * data[offset + 3] + 65536 * data[offset + 2]
                  + 16777216 * data[offset + 1]]
ReadUInt32LE(data, offset) ==
    IF offset + 4 > Len(data) THEN [ok |-> FALSE]
    ELSE [ok |-> TRUE,
          val |-> data[offset + 1] + 256 * data[offset + 2] + 65536 * data[offset + 3]
                  + 16777216 * data[offset + 4]]

\* lines 136, 142, 148
ReadString(data, offset, length) ==
    StripNul(Utf8Decode(BufSlice(data, offset, offset + length)))

\* fetchCurrentMetadata, lines 121-154: the parse of the account data; an
\* error thrown on the way is caught and null returned
DecodeAccount(data) ==
    LET updateAuthority == PublicKeyOf(BufSlice(data, 1, 1 + PUBLIC_KEY_LENGTH))
        nameAt == 1 + PUBLIC_KEY_LENGTH + PUBLIC_KEY_LENGTH
        nameLength == ReadUInt32LE(data, nameAt)
    IN  IF ~nameLength.ok THEN Null
        ELSE
        LET symbolAt == nameAt + 4 + nameLength.val
            symbolLength == ReadUInt32LE(data, symbolAt)
        IN  IF ~symbolLength.ok THEN Null
            ELSE
            LET uriAt == symbolAt + 4 + symbolLength.val
                uriLength == ReadUInt32LE(data, uriAt)
            IN  IF ~uriLength.ok THEN Null
                ELSE [found |-> TRUE,
                      name |-> ReadString(data, nameAt + 4, nameLength.val),
                      symbol |-> ReadString(data, symbolAt + 4, symbolLength.val),
                      uri |-> ReadString(data, uriAt + 4, uriLength.val),
                      updateAuthority |-> updateAuthority]

\* the strings and paddings of the accounts of the model
CodecNames == {<<"a">>, <<"a", "b">>, <<"é">>, <<"a", SP>>}
CodecUris == {<<"u">>, <<"u", "v">>, <<>>}
Paddings == {0, 1}
CodecTarget == Target("m1", [name |-> <<"a">>, symbol |-> <<"s">>, uri |-> <<"u">>])

InitCodec ==
    /\ \E authority \in {Wallet, Other} : \E name \in CodecNames :
       \E uri \in CodecUris : \E pad \in Paddings :
         LET v == [name |-> name, symbol |-> <<"s">>, uri |-> uri]
         IN  /\ chain = [x \in {"m1"} |->
                           [exists |-> TRUE, data |-> AccountData(authority, v, pad)]]
             /\ prev = [authority |-> authority, values |-> v, pad |-> pad,
                        truncated |-> FALSE]
    /\ u = IdleFrame
    /\ rt = IdleFrame
    /\ remote = [pads |-> FALSE, flaky |-> FALSE]
    /\ \E r \in 0..MaxRetry : config = [maxRetries |-> r]
    /\ manifest = <<>>
    /\ m = NoMain
    /\ logs = <<>>
    /\ checkpointFile = NoFile
    /\ logFile = NoFile
    /\ summaryFile = NoFile
    /\ failedFile = NoFile
    /\ calls = <<>>
    /\ last = NoCall

\* the account holds fewer bytes than its layout says
Truncate ==
    /\ u.pc = "idle"
    /\ ~prev.truncated
    /\ \E length \in 0..(Len(chain["m1"].data) - 1) :
         chain' = [chain EXCEPT !["m1"].data = SubSeq(@, 1, length)]
    /\ prev' = [prev EXCEPT !.truncated = TRUE]
    /\ UNCHANGED <<rt, remote, u, config, manifest, m, logs, checkpointFile, logFile,
                   summaryFile, failedFile, calls, last>>

\* updateNFTMetadata, lines 194-253: the call, its fetch and what it decides
FetchAccount ==
    /\ u.pc = "idle"
    /\ \E dryRun \in BOOLEAN :
         LET current == DecodeAccount(chain["m1"].data)
             d == Decide(current, CodecTarget, dryRun)
             base == [metadata |-> CodecTarget, dryRun |-> dryRun,
                      current |-> current, fetches |-> 1, submits |-> 0,
                      delays |-> <<>>]
         IN  u' = IF d.ret
                  THEN base @@ [pc |-> "returned", result |-> d.result]
                  ELSE base @@ [pc |-> "submit", attempt |-> 0]
    /\ UNCHANGED <<rt, chain, remote, prev, config, manifest, m, logs, checkpointFile,
                   logFile, summaryFile, failedFile, calls, last>>

\* lines 273-298: sendAndConfirmTransaction resolves; the program stores the
\* strings of the instruction
SubmitStored ==
    /\ u.pc = "submit"
    /\ chain' = [chain EXCEPT !["m1"].data =
                    AccountData(prev.authority, Values(u.metadata), prev.pad)]
    /\ u' = [pc |-> "returned", metadata |-> u.metadata, dryRun |-> u.dryRun,
             current |-> u.current, fetches |-> u.fetches, submits |-> 1,
             delays |-> u.delays,
             result |-> [mint |-> u.metadata.mint, status |-> "updated",
                         oldValues |-> Values(u.current),
                         newValues |-> Values(u.metadata),
                         transactionSignature |-> "sig"]]
    /\ UNCHANGED <<rt, remote, prev, config, manifest, m, logs, checkpointFile, logFile,
                   summaryFile, failedFile, calls, last>>

NextCodec ==
    \/ Truncate
    \/ FetchAccount
    \/ SubmitStored

SpecCodec == InitCodec /\ [][NextCodec]_vars

\* C31: decoding an account whose bytes end before an offset computed from
\* the layout and the three length prefixes fails: the call on a truncated
\* account returns an 'error' outcome and never goes on to compare or
\* submit values decoded from it.
C31_TruncatedAccountFails ==
    (prev.truncated /\ u.pc # "idle") =>
        /\ u.pc = "returned"
        /\ ~u.current.found
        /\ u.result.status = "error"

\* C32: for an authority and NUL-free name, symbol and uri, the account laid
\* out as key byte, authority, mint and the three strings, each with its
\* 4-byte little-endian length and optional NUL padding inside the field,
\* decodes to the same authority, name, symbol and uri.
C32_CodecRoundTrip ==
    /\ \A v \in [name : CodecNames, symbol : {<<"s">>}, uri : CodecUris] :
         \A str \in {v.name, v.symbol, v.uri} :
           /\ ReadUInt32LE(EncodeString(str), 0) = [ok |-> TRUE, val |-> Len(Utf8Encode(str))]
           /\ PaddedField(str, 0) = EncodeString(str)
    /\ (~prev.truncated /\ u.pc # "idle") =>
         u.current = [found |-> TRUE,
                      name |-> prev.values.name,
                      symbol |-> prev.values.symbol,
                      uri |-> prev.values.uri,
                      updateAuthority |-> prev.authority]

\* a padded account with a two-byte character in its name was decoded
C32_Witness ==
    /\ ~prev.truncated
    /\ u.pc = "returned"
    /\ prev.pad = 1
    /\ prev.values.name = <<"é">>
    /\ u.current.name = <<"é">>
    /\ u.current.uri = prev.values.uri
    /\ u.current.updateAuthority = prev.authority

----------------------------------------------------------------------------
(* isMetadataDifferent on its own. In SpecDiff u holds the two arguments of
   one call and, after the call, its result. *)

DiffNames ==
    {<<"a">>, <<"A">>, <<"a", SP>>, <<SP, "a">>, <<TAB, "a", SP>>, <<SP, "A">>,
     <<"a", SP, "b">>, <<>>, <<SP>>}
DiffSymbols == {<<"s">>, <<"s", SP>>, <<"S">>}
DiffUris == {<<"u">>, <<TAB, "u">>}
DiffValues == [name : DiffNames, symbol : DiffSymbols, uri : DiffUris]

InitDiff ==
    /\ \E current \in DiffValues : \E original \in DiffValues :
         u = [pc |-> "call", current |-> current, original |-> Target("m1", original)]
    /\ rt = IdleFrame
    /\ chain = [x \in {"m1"} |-> Absent]
    /\ remote = [pads |-> FALSE, flaky |-> FALSE]
    /\ prev = NoCall
    /\ config = [maxRetries |-> 0]
    /\ manifest = <<>>
    /\ m = NoMain
    /\ logs = <<>>
    /\ checkpointFile = NoFile
    /\ logFile = NoFile
    /\ summaryFile = NoFile
    /\ failedFile = NoFile
    /\ calls = <<>>
    /\ last = NoCall

\* lines 163-172: the call returns
Compare ==
    /\ u.pc = "call"
    /\ u' = [pc |-> "returned", current |-> u.current, original |-> u.original,
             different |-> IsMetadataDifferent(u.current, u.original)]
    /\ UNCHANGED <<rt, chain, remote, prev, config, manifest, m, logs, checkpointFile,
                   logFile, summaryFile, failedFile, calls, last>>

NextDiff == Compare

SpecDiff == InitDiff /\ [][NextDiff]_vars

\* t is s without its surrounding white space: s is white space, t, white
\* space, and t neither starts nor ends with white space
IsStripped(t, s) ==
    \E i \in 0..Len(s) : \E j \in 0..(Len(s) - i) :
        /\ t = SubSeq(s, i + 1, Len(s) - j)
        /\ \A k \in 1..i : s[k] \in WhiteSpace
        /\ \A k \in (Len(s) - j + 1)..Len(s) : s[k] \in WhiteSpace
        /\ t = <<>> \/ (t[1] \notin WhiteSpace /\ t[Len(t)] \notin WhiteSpace)

\* s and t are the same once their surrounding white space is removed
SameStripped(s, t) ==
    \E core \in {SubSeq(s, a, b) : a \in 1..(Len(s) + 1), b \in 0..Len(s)} :
        IsStripped(core, s) /\ IsStripped(core, t)

\* C33: isMetadataDifferent(current, target) is true exactly when name,
\* symbol or uri differ once the surrounding white space of both sides is
\* removed, letter case counting: values that differ only in surrounding
\* white space are not different, values that differ in case are.
C33_DifferentIffStrippedDiffer ==
    u.pc = "returned" =>
        /\ u.different <=>
             \/ ~SameStripped(u.current.name, u.original.name)
             \/ ~SameStripped(u.current.symbol, u.original.symbol)
             \/ ~SameStripped(u.current.uri, u.original.uri)
        /\ (u.current.name = <<"a", SP>> /\ u.original.name = <<TAB, "a", SP>>
            /\ u.current.symbol = u.original.symbol /\ u.current.uri = u.original.uri)
             => ~u.different
        /\ (u.current.name = <<"a">> /\ u.original.name = <<"A">>) => u.different

\* every field differs in surrounding white space only
C33_Witness ==
    /\ u.pc = "returned"
    /\ u.current.name = <<"a", SP>>
    /\ u.original.name = <<TAB, "a", SP>>
    /\ u.current.symbol = <<"s">>
    /\ u.original.symbol = <<"s", SP>>
    /\ u.current.uri = <<TAB, "u">>
    /\ u.original.uri = <<"u">>
    /\ ~u.different

----------------------------------------------------------------------------
(* Claims about the summary and the tallies, under Spec *)

\* the outcomes of the log that are 'updated' and carry a signature
Confirmed(results) ==
    {j \in DOMAIN results :
        /\ results[j].status = "updated"
        /\ "transactionSignature" \in DOMAIN results[j]}

\* C34: the total cost of the run summary is the fixed average fee times the
\* number of outcomes logged in this run that are 'updated' and carry a
\* confirmation id; it is 0 for every dry run, where no outcome carries one;
\* skipped, failed and simulated outcomes add nothing.
C34_TotalCost ==
    Completed =>
        /\ summaryFile.exists
        /\ summaryFile.totalCostSOL = AvgFeePerTx * Cardinality(Confirmed(logs))
        /\ config.dryRun => (summaryFile.totalCostSOL = 0 /\ Confirmed(logs) = {})

\* a run that updated one record and skipped or failed another
C34_Witness ==
    /\ Completed
    /\ ~config.dryRun
    /\ Len(logs) >= 2
    /\ Cardinality(Confirmed(logs)) = 1
    /\ summaryFile.totalCostSOL = AvgFeePerTx

----------------------------------------------------------------------------
(* The order of the checks of updateNFTMetadata, under SpecUpdate *)

\* the fetched values equal the target, surrounding white space apart
SameAsTarget ==
    /\ Trim(u.current.name) = Trim(u.metadata.name)
    /\ Trim(u.current.symbol) = Trim(u.metadata.symbol)
    /\ Trim(u.current.uri) = Trim(u.metadata.uri)

\* C35: the call decides not-found before authority, authority before the
\* comparison, and the comparison before the dry-run short cut: a record
\* whose on-chain values equal the target but whose authority is not the
\* wallet yields 'error', not 'skipped', in a dry run as well.
C35_CheckOrder ==
    Fetched =>
        IF ~u.current.found
        THEN /\ u.pc = "returned"
             /\ u.result.status = "error"
             /\ u.result.error.message = "Failed to fetch current metadata"
        ELSE IF u.current.updateAuthority # Wallet
        THEN /\ u.pc = "returned"
             /\ u.result.status = "error"
             /\ u.result.error.message = "Update authority mismatch"
        ELSE IF SameAsTarget
        THEN /\ u.pc = "returned"
             /\ u.result.status = "skipped"
        ELSE IF u.dryRun
        THEN /\ u.pc = "returned"
             /\ u.result.status = "updated"
             /\ u.submits = 0
             /\ "transactionSignature" \notin DOMAIN u.result
        ELSE u.pc = "returned" => u.submits >= 1

\* a dry run on a record that already matches but belongs to another
\* authority
C35_Witness ==
    /\ u.pc = "returned"
    /\ u.dryRun
    /\ u.current.found
    /\ u.current.updateAuthority = Other
    /\ SameAsTarget
    /\ u.result.status = "error"
    /\ u.submits = 0

\* C36: in every saved checkpoint and in the final run summary, processed
\* equals updated + skipped + failed, for fresh runs and for runs resumed
\* from a checkpoint.
C36_TallyConsistent ==
    /\ checkpointFile.exists =>
         checkpointFile.summary.processed =
             checkpointFile.summary.updated + checkpointFile.summary.skipped
             + checkpointFile.summary.failed
    /\ summaryFile.exists =>
         summaryFile.totalProcessed =
             summaryFile.successfullyUpdated + summaryFile.skipped + summaryFile.failed

\* the step in which a run with an empty working list ends
EndsEmpty == m' # m /\ m'.pc = "done" /\ Len(m'.metadata) = 0

\* C37: when the working list is empty after the range filter and the
\* resume filter, the run ends without a call of updateNFTMetadata, without
\* writing a summary, log or failed-mints file, and leaves the checkpoint
\* file as it is.
C37_EmptyRunWritesNothing ==
    [][EndsEmpty =>
         /\ m'.how = "nothing to process"
         /\ calls' = <<>>
         /\ logs' = <<>>
         /\ UNCHANGED <<chain, checkpointFile, logFile, summaryFile, failedFile>>]_vars

\* a resumed run found nothing left to process; the checkpoint is still there
C37_Witness ==
    /\ m.pc = "done"
    /\ m.how = "nothing to process"
    /\ config.resumeFromCheckpoint
    /\ m.checkpoint.exists
    /\ checkpointFile = m.checkpoint
    /\ calls = <<>>

----------------------------------------------------------------------------
(* setupGracefulShutdown on its own.

   In SpecShutdown m is the process: the flag isShuttingDown, the signals
   received so far, how many times the shutdown callback was invoked
   (flushes), whether a handler is waiting for the callback (pc
   "shutting"), and the exit code. The callback is the one main installs
   (logger.saveLogs, which catches its own write error) or one that
   throws. *)

MaxSignals == 3     \* at most MaxSignals signals reach the process
Signals == {"SIGINT", "SIGTERM"}
Callbacks == {"saveLogs", "throws"}
Statuses == {"updated", "skipped", "error"}

\* the logs array of a run at the time of the signal
LogsOfLength(n) == [1..n -> {[mint |-> "m1", status |-> st] : st \in Statuses}]

\* line 245: the handler returns at once when a shutdown is in progress
AlreadyShuttingDownMut(x) == FALSE
AlreadyShuttingDown(x) == x.isShuttingDown

InitShutdown ==
    /\ \E n \in 0..MaxRecords : logs \in LogsOfLength(n)
    /\ \E cb \in Callbacks : \E diskFull \in BOOLEAN :
         m = [pc |-> "running", isShuttingDown |-> FALSE, signals |-> <<>>,
              flushes |-> 0, callback |-> cb, diskFull |-> diskFull, threw |-> FALSE]
    /\ logFile = NoFile
    /\ rt = IdleFrame
    /\ chain = [x \in {"m1"} |-> Absent]
    /\ remote = [pads |-> FALSE, flaky |-> FALSE]
    /\ u = IdleFrame
    /\ prev = NoCall
    /\ config = [maxRetries |-> 0]
    /\ manifest = <<>>
    /\ checkpointFile = NoFile
    /\ summaryFile = NoFile
    /\ failedFile = NoFile
    /\ calls = <<>>
    /\ last = NoCall

\* lines 244-252 and 262-263: a signal arrives and handleShutdown runs up to
\* its await: it returns when a shutdown is in progress; otherwise it sets
\* the flag and invokes the callback, whose saveLogs writes the log file
\* unless the write fails
HandleShutdown ==
    /\ m.pc \in {"running", "shutting"}
    /\ Len(m.signals) < MaxSignals
    /\ \E signal \in Signals :
         IF AlreadyShuttingDown(m)
         THEN /\ m' = [m EXCEPT !.signals = Append(@, signal)]
              /\ logFile' = logFile
         ELSE /\ m' = [m EXCEPT !.signals = Append(@, signal),
                                !.isShuttingDown = TRUE,
                                !.pc = "shutting",
                                !.flushes = @ + 1,
                                !.threw = (m.callback = "throws")]
              /\ logFile' = IF m.callback = "saveLogs" /\ ~m.diskFull THEN SaveLogs
                            ELSE logFile
    /\ UNCHANGED <<rt, chain, remote, u, prev, config, manifest, logs, checkpointFile,
                   summaryFile, failedFile, calls, last>>

\* lines 252-258: the callback has settled; process.exit(0), or
\* process.exit(1) from the catch
ShutdownExit ==
    /\ m.pc = "shutting"
    /\ m' = [m EXCEPT !.pc = "exited"] @@ [code |-> IF m.threw THEN 1 ELSE 0]
    /\ UNCHANGED <<rt, chain, remote, u, prev, config, manifest, logs, checkpointFile,
                   logFile, summaryFile, failedFile, calls, last>>

NextShutdown ==
    \/ HandleShutdown
    \/ ShutdownExit

SpecShutdown == InitShutdown /\ [][NextShutdown]_vars

\* C38: the shutdown callback runs at most once per process: a signal
\* received while a shutdown is in progress starts no second flush; the
\* process exits with code 0 when the callback completed and with code 1
\* only when it threw.
C38_ShutdownOnce ==
    /\ m.flushes <= 1
    /\ m.flushes = 1 <=> m.signals # <<>>
    /\ m.pc = "exited" =>
         /\ m.flushes = 1
         /\ m.code = 0 <=> m.callback = "saveLogs"
         /\ m.code = 1 <=> m.callback = "throws"
         /\ (m.callback = "saveLogs" /\ ~m.diskFull) => logFile = SaveLogs

\* two signals, one flush, exit code 0
C38_Witness ==
    /\ m.pc = "exited"
    /\ m.signals = <<"SIGINT", "SIGTERM">>
    /\ m.flushes = 1
    /\ m.code = 0
    /\ Len(logs) >= 1
    /\ logFile = SaveLogs

----------------------------------------------------------------------------
(* Runs that no signal interrupts, with progress: every pending call of
   the remote resolves or rejects, every timer fires, and main goes on
   whenever it can. *)

NextLive ==
    \/ StartRun
    \/ BatchStart
    \/ FetchAttempt
    \/ SubmitOk
    \/ SubmitFail
    \/ Backoff
    \/ LogResult
    \/ NextInBatch
    \/ BatchDone
    \/ DelayEnd
    \/ Finish
    \/ Fatal

SpecLive == Init /\ [][NextLive]_vars /\ WF_vars(NextLive)

\* main is in its batch loop
Started == m.pc \in {"loop", "batch", "sleep", "delay"}

\* the call on a record made at most one fetch and at most maxRetries + 1
\* submissions
AttemptsBounded ==
    u.pc \in {"fetch", "submit", "backoff", "returned"} =>
        /\ u.fetches <= 1
        /\ u.submits <= config.maxRetries + 1

\* the process of a started run ends, one way or another
RunStops == Started ~> (m.pc \in {"done", "exited"})

\* C39: for a finite manifest, a positive batch size, a finite maxRetries
\* and a remote whose every call returns or fails, a run that is not
\* interrupted eventually reaches its end, with the summary written, and
\* makes at most one fetch and at most maxRetries + 1 submissions per
\* record.
C39_RunReachesItsEnd ==
    /\ []AttemptsBounded
    /\ Started ~> (Completed /\ summaryFile.exists)

====
